---- MODULE Spec2Model ----
(***************************************************************************)
(* Transaction scope handling of psqlpy_piccolo.engine: the task-local     *)
(* current-transaction slot of PSQLPyEngine, PostgresTransaction scope     *)
(* objects (creation, entry, exit, manual commit / rollback, savepoint     *)
(* counter), the statement router and the connection pool flag.  The       *)
(* driver (psqlpy) and the database are modelled by what the adapter asks  *)
(* of them: a driver transaction is none / open / committed / rolledback / *)
(* failed, and every write is pending, durable or discarded.               *)
(***************************************************************************)
EXTENDS Integers, Sequences, FiniteSets, TLC

\* ---- bounds of the model
MaxTx == 2          \* PostgresTransaction objects that may be constructed
MaxWrites == 1      \* distinct writes (transaction, scope, fate) in one behaviour; rows in one log
MaxSp == 2          \* Savepoint objects created, and the savepoint counter's cap
MaxAdd == 2         \* queries handed to Atomic.add in one behaviour
MaxPools == 2       \* ConnectionPool objects start_connection_pool may construct
MaxFetch == 2       \* fetches counted on one batch
MaxExt == 2         \* extensions an engine is configured with

\* ---- program constants
NoTx == 0           \* the slot's default: contextvars.ContextVar(..., default=None)

Tasks == {"t1"}
\* Every task there can be: the one above, and one it may start.
AllTasks == {"t1", "t2"}
TxIds == 1..MaxTx

VARIABLES
    pool,     \* PSQLPyEngine.pool is set (a ConnectionPool) or None
    cur,      \* cur[t]: engine.current_transaction in task t's context
    stack,    \* stack[t]: scope objects whose "async with" block t is inside, innermost first
    exc,      \* exc[t]: the exception propagating in task t ("none" when running)
    txs,      \* txs[s]: the fields of PostgresTransaction object s
    writes,   \* the rows written so far: by which transaction, in which scope, their fate
    ev,       \* the last operation: what it was given, what it called, what it returned
    log,      \* log[x]: the rows written and savepoints set in driver transaction x, in order
    objs,     \* the Savepoint objects created so far
    at,       \* the Atomic builder: its pending queries and the run in progress
    pl,       \* the ConnectionPool objects the engine made, and the one it holds
    started,  \* the tasks that have been started
    nd,   \* the extra node: a second engine, its slot and its transactions
    bt,   \* the AsyncBatch the task works with
    extensions  \* self.extensions of the engine

\* What only the operations on pools as objects, on tasks, on the extra
\* node and on batches work on.
ext2 == <<pl, started, nd, bt, extensions>>
\* What the scope operations work on; the rest (ext) they leave alone.
ext == <<log, objs, at, ext2>>
vars == <<pool, cur, stack, exc, txs, writes, ev, log, objs, at, pl, started, nd, bt, extensions>>

\* ---- PostgresTransaction object ----------------------------------------

\* A slot of the object table before the constructor has run on it.
FreeTx ==
    [st |-> "free", allow_nested |-> TRUE, parent |-> NoTx,
     committed |-> FALSE, rolled_back |-> FALSE, savepoint_id |-> 0,
     dtx |-> "none", context |-> NoTx]

\* PostgresTransaction.__init__: the parent pointer, given the slot's value.
InitParent(current, allow) ==
    IF current # NoTx /\ allow THEN current ELSE NoTx

\* PostgresTransaction.__init__: the constructor raises TransactionError.
InitRejects(current, allow) == current # NoTx /\ ~allow

\* "if self._parent is not None" / "if self._parent": the scope joined an outer one.
IsNested(o) == o.parent # NoTx

\* __aenter__: the object "async with s" yields.
Yielded(s) == IF IsNested(txs[s]) THEN txs[s].parent ELSE s

\* PostgresTransaction.get_connection: where the connection comes from.
ConnSource(p) == IF p THEN "pool" ELSE "new"

\* Variants of ExitCall with a slip in it: the flags are not consulted; the
\* in-flight exception is not consulted; a nested scope ends the transaction.
ExitCall_NoCheck(o, failing) ==
    IF IsNested(o) THEN "none"
    ELSE IF failing THEN "rollback" ELSE "commit"
ExitCall_CommitOnError(o, failing) ==
    IF IsNested(o) THEN "none"
    ELSE IF ~o.committed /\ ~o.rolled_back THEN "commit" ELSE "none"
ExitCall_NestedEnds(o, failing) ==
    IF failing THEN (IF ~o.rolled_back THEN "rollback" ELSE "none")
    ELSE (IF ~o.committed /\ ~o.rolled_back THEN "commit" ELSE "none")

\* __aexit__: the terminal driver call the exit issues ("none" when it issues none).
ExitCall(o, failing) ==
    IF IsNested(o) THEN "none"
    ELSE IF failing
         THEN (IF ~o.rolled_back THEN "rollback" ELSE "none")
         ELSE (IF ~o.committed /\ ~o.rolled_back THEN "commit" ELSE "none")

\* engine.transaction_exists(): a transaction is current in the task.
TransactionExists(t) == cur[t] # NoTx

\* ---- driver and database -----------------------------------------------

\* The driver transaction of x after a terminal call kind ("committed" /
\* "rolledback"): a call on an open transaction ends it (a failed call leaves
\* it failed), a call on a transaction that is not open changes nothing.
DriverEnd(T, x, kind, ok) ==
    [T EXCEPT ![x].dtx = IF @ = "open" THEN (IF ok THEN kind ELSE "failed") ELSE @]

\* The writes after that call: the pending writes of x become durable on a
\* successful commit and are discarded otherwise.
WritesEnd(W, T, x, kind, ok) ==
    IF T[x].dtx # "open" THEN W
    ELSE {IF w.tx = x /\ w.st = "pending"
          THEN [w EXCEPT !.st = IF ok /\ kind = "committed"
                                THEN "committed" ELSE "discarded"]
          ELSE w : w \in W}

\* The savepoints and uncommitted rows the database keeps for x after that
\* call: none once the transaction has ended.
LogEnd(L, T, x) == IF T[x].dtx = "open" THEN [L EXCEPT ![x] = <<>>] ELSE L

\* PostgresTransaction.commit: the flag is set only after the driver call returned.
commit(T, x, ok) ==
    [DriverEnd(T, x, "committed", ok) EXCEPT ![x].committed = IF ok THEN TRUE ELSE @]

\* PostgresTransaction.rollback.
rollback(T, x, ok) ==
    [DriverEnd(T, x, "rolledback", ok) EXCEPT ![x].rolled_back = IF ok THEN TRUE ELSE @]

\* The outcomes a terminal driver call on x can have: the driver refuses a
\* transaction that is not open (never begun, already committed or rolled
\* back); on an open one the call succeeds or fails.
Outcomes(x) == IF txs[x].dtx # "open" THEN {FALSE} ELSE {TRUE, FALSE}

\* A write is durable: committed with its transaction, or run outside an open one.
Durable(w) == w.st \in {"committed", "autocommitted"}

\* The rows a statement routed through x (NoTx: any other connection) sees.
Visible(x) ==
    {w \in writes : Durable(w) \/ (x # NoTx /\ w.st = "pending" /\ w.tx = x)}

\* run_querystring / run_ddl: the connection a statement runs on.
Route(current, in_pool, p) ==
    IF current # NoTx THEN "tx"
    ELSE IF in_pool /\ p THEN "pool" ELSE "new"

\* run_ddl: the same three branches, written out a second time in the code.
RouteDdl(current, in_pool, p) ==
    IF current # NoTx THEN "tx"
    ELSE IF in_pool /\ p THEN "pool" ELSE "new"

\* PSQLPyEngine.get_new_connection: "if self.pool: return await
\* self.pool.connection()", otherwise a connection of a pool built for the call.
get_new_connection(p) == IF p THEN "pool" ELSE "new"

\* The calls a statement makes once its branch r is chosen: the branch, and
\* for _run_in_new_connection where get_new_connection took the connection.
RouteCalls(r, p) ==
    IF r = "new" THEN <<r, get_new_connection(p)>> ELSE <<r>>

\* The connection the statement ends up on: the current transaction's, one
\* borrowed from the engine's pool, or a newly opened one.
ConnUsed(calls) == calls[Len(calls)]

\* ---- the last operation ------------------------------------------------

\* op: the operation; task: the task that ran it; s: the object it acted on;
\* arg: its argument (Exit: an exception is in flight); was: the task's
\* current transaction when it started; calls: what it called, in order;
\* raised: the exception it left propagating; ret: what it returned (Catch:
\* the exception handled).
Ev(op, t, s, arg, calls, raised, ret) ==
    [op |-> op, task |-> t, s |-> s, arg |-> arg, was |-> cur[t],
     calls |-> calls, raised |-> raised, ret |-> ret]

\* engine.atomic() -> Atomic.__init__: nothing pending.  queries: the
\* pending list; added: the queries handed to add so far; pc, i, scope: where
\* run is ("idle": not running), the loop's position and the scope it
\* opened; start, ran: the list when the run began and what it executed;
\* prev: the queries that had been added when the previous run ended;
\* exiting: the loop is over and run awaits the driver call of the scope's
\* __aexit__.
NewAtomic ==
    [queries |-> <<>>, added |-> 0, pc |-> "idle", i |-> 0, scope |-> NoTx,
     start |-> <<>>, ran |-> <<>>, prev |-> 0, exiting |-> FALSE]

\* PSQLPyEngine.__init__: self.pool = None.  made: the ConnectionPool
\* objects start_connection_pool has constructed (the n-th is object n);
\* held, size: the one in self.pool (0: None) and its max_db_pool_size;
\* closed: the objects close() was called on.
NoPools == [made |-> 0, held |-> 0, size |-> 0, closed |-> {}]

\* No second engine yet.  made: PSQLPyEngine(...) has been constructed for
\* the extra node; same: its configuration names the same database as the
\* main engine's; cur: the value of its current_transaction in the task's
\* context; txs: the PostgresTransaction objects constructed on it.
NoNode == [made |-> FALSE, same |-> FALSE, cur |-> NoTx, txs |-> {}]

\* PSQLPyEngine.__init__: extensions: Sequence[str] = ("uuid-ossp",).
DefaultExtensions == <<"uuid-ossp">>

\* No AsyncBatch yet.  st: "none", then "made" by engine.batch, "open"
\* inside its with block, "closed" after it, "failed" when it could not be
\* entered; src: where its connection came from; dtx: its driver
\* transaction; cursor: _cursor is set; fetched: the fetches that returned
\* rows; yielded: what iterating it has yielded, in order.
NoBatch ==
    [st |-> "none", src |-> "none", dtx |-> "none", cursor |-> FALSE,
     fetched |-> 0, yielded |-> <<>>]

Init ==
    /\ pool = FALSE
    /\ cur = [t \in AllTasks |-> NoTx]
    /\ stack = [t \in AllTasks |-> <<>>]
    /\ exc = [t \in AllTasks |-> "none"]
    /\ txs = [s \in TxIds |-> FreeTx]
    /\ writes = {}
    /\ ev = [op |-> "Init", task |-> "t1", s |-> NoTx, arg |-> FALSE, was |-> NoTx,
             calls |-> <<>>, raised |-> "none", ret |-> NoTx]
    /\ log = [x \in TxIds |-> <<>>]
    /\ objs = <<>>
    /\ at = NewAtomic
    /\ pl = NoPools
    /\ started = {"t1"}
    /\ nd = NoNode
    /\ bt = NoBatch
    /\ extensions = DefaultExtensions

\* ---- operations --------------------------------------------------------

FreeIds == {s \in TxIds : txs[s].st = "free"}
NextId == CHOOSE s \in FreeIds : \A r \in FreeIds : s <= r
Top(t) == IF stack[t] = <<>> THEN NoTx ELSE Head(stack[t])
InStack(t) == {stack[t][i] : i \in 1..Len(stack[t])}
Running(t) == exc[t] = "none"

\* A variant of Create with a slip in it: the rejection empties the slot.
Create_ClearsSlot(t, allow) ==
    /\ Running(t)
    /\ IF InitRejects(cur[t], allow)
       THEN /\ exc' = [exc EXCEPT ![t] = "TransactionError"]
            /\ ev' = Ev("Create", t, NoTx, allow, <<>>, "TransactionError", NoTx)
            /\ cur' = [cur EXCEPT ![t] = NoTx]
            /\ UNCHANGED txs
       ELSE /\ FreeIds # {}
            /\ txs' = [txs EXCEPT ![NextId] =
                          [FreeTx EXCEPT !.st = "created",
                                         !.allow_nested = allow,
                                         !.parent = InitParent(cur[t], allow)]]
            /\ ev' = Ev("Create", t, NextId, allow, <<>>, "none", NextId)
            /\ UNCHANGED <<exc, cur>>
    /\ UNCHANGED <<pool, stack, writes>>
    /\ UNCHANGED ext

\* engine.transaction(allow_nested) -> PostgresTransaction.__init__
Create(t, allow) ==
    /\ Running(t)
    /\ IF InitRejects(cur[t], allow)
       THEN /\ exc' = [exc EXCEPT ![t] = "TransactionError"]
            /\ ev' = Ev("Create", t, NoTx, allow, <<>>, "TransactionError", NoTx)
            /\ UNCHANGED txs
       ELSE /\ FreeIds # {}
            /\ txs' = [txs EXCEPT ![NextId] =
                          [FreeTx EXCEPT !.st = "created",
                                         !.allow_nested = allow,
                                         !.parent = InitParent(cur[t], allow)]]
            /\ ev' = Ev("Create", t, NextId, allow, <<>>, "none", NextId)
            /\ UNCHANGED exc
    /\ UNCHANGED <<pool, cur, stack, writes>>
    /\ UNCHANGED ext

\* A variant of Enter with a slip in it: a scope with a parent sets the slot
\* to itself.
Enter_NestedPublishes(t, s) ==
    /\ Running(t)
    /\ txs[s].st = "created"
    /\ IF IsNested(txs[s])
       THEN /\ txs' = [txs EXCEPT ![s].st = "entered", ![s].allow_nested = TRUE,
                                  ![s].context = cur[t]]
            /\ cur' = [cur EXCEPT ![t] = s]
            /\ ev' = Ev("Enter", t, s, txs[s].allow_nested, <<"set">>, "none", txs[s].parent)
       ELSE /\ txs' = [txs EXCEPT ![s].st = "entered", ![s].allow_nested = TRUE,
                                  ![s].dtx = "open", ![s].context = cur[t]]
            /\ cur' = [cur EXCEPT ![t] = s]
            /\ ev' = Ev("Enter", t, s, txs[s].allow_nested,
                        <<ConnSource(pool), "begin", "set">>, "none", s)
    /\ stack' = [stack EXCEPT ![t] = <<s>> \o @]
    /\ UNCHANGED <<pool, exc, writes>>
    /\ UNCHANGED ext

\* "async with s": PostgresTransaction.__aenter__.  A scope with a parent
\* returns the parent; otherwise get_connection, begin, current_transaction.set.
\* (allow_nested is not a field of the object: the table keeps it until entry.)
Enter(t, s) ==
    /\ Running(t)
    /\ txs[s].st = "created"
    /\ IF IsNested(txs[s])
       THEN /\ txs' = [txs EXCEPT ![s].st = "entered", ![s].allow_nested = TRUE]
            /\ ev' = Ev("Enter", t, s, txs[s].allow_nested, <<>>, "none", txs[s].parent)
            /\ UNCHANGED cur
       ELSE /\ txs' = [txs EXCEPT ![s].st = "entered", ![s].allow_nested = TRUE,
                                  ![s].dtx = "open", ![s].context = cur[t]]
            /\ cur' = [cur EXCEPT ![t] = s]
            /\ ev' = Ev("Enter", t, s, txs[s].allow_nested,
                        <<ConnSource(pool), "begin", "set">>, "none", s)
    /\ stack' = [stack EXCEPT ![t] = <<s>> \o @]
    /\ UNCHANGED <<pool, exc, writes>>
    /\ UNCHANGED ext

\* A variant of EnterFails with a slip in it: the slot is set before begin.
EnterFails_Publishes(t, s, begun) ==
    /\ Running(t)
    /\ txs[s].st = "created"
    /\ ~IsNested(txs[s])
    /\ txs' = [txs EXCEPT ![s].st = "failed", ![s].allow_nested = TRUE]
    /\ cur' = [cur EXCEPT ![t] = IF begun THEN s ELSE @]
    /\ exc' = [exc EXCEPT ![t] = "driver"]
    /\ ev' = Ev("Enter", t, s, txs[s].allow_nested,
                (IF begun THEN <<ConnSource(pool), "set", "begin">> ELSE <<ConnSource(pool)>>),
                "driver", NoTx)
    /\ UNCHANGED <<pool, stack, writes>>
    /\ UNCHANGED ext

\* __aenter__ when acquiring the connection raises (begun = FALSE) or the
\* driver's begin raises (begun = TRUE): the slot is not set, the block is
\* not entered and __aexit__ will not run.
EnterFails(t, s, begun) ==
    /\ Running(t)
    /\ txs[s].st = "created"
    /\ ~IsNested(txs[s])
    /\ txs' = [txs EXCEPT ![s].st = "failed", ![s].allow_nested = TRUE]
    /\ exc' = [exc EXCEPT ![t] = "driver"]
    /\ ev' = Ev("Enter", t, s, txs[s].allow_nested,
                (IF begun THEN <<ConnSource(pool), "begin">> ELSE <<ConnSource(pool)>>),
                "driver", NoTx)
    /\ UNCHANGED <<pool, cur, stack, writes>>
    /\ UNCHANGED ext

\* The end of the "async with" block of the innermost scope, reached by the
\* body finishing or by the pending exception: PostgresTransaction.__aexit__.
\* reset(self.context) is reached only when the driver call returned.
Exit(t, ok) ==
    /\ stack[t] # <<>>
    /\ LET s == Top(t)
           o == txs[s]
           call == ExitCall(o, exc[t] # "none")
           T1 == IF call = "commit" THEN commit(txs, s, ok)
                 ELSE IF call = "rollback" THEN rollback(txs, s, ok)
                 ELSE txs
           kind == IF call = "commit" THEN "committed" ELSE "rolledback"
           resets == ~IsNested(o) /\ ok
       IN  /\ ok \in (IF call = "none" THEN {TRUE} ELSE Outcomes(s))
           /\ writes' = IF call = "none" THEN writes
                        ELSE WritesEnd(writes, txs, s, kind, ok)
           /\ txs' = [T1 EXCEPT ![s].st = "exited"]
           /\ stack' = [stack EXCEPT ![t] = Tail(@)]
           /\ cur' = [cur EXCEPT ![t] = IF resets THEN o.context ELSE @]
           /\ exc' = [exc EXCEPT ![t] = IF ok THEN @ ELSE "driver"]
           /\ ev' = Ev("Exit", t, s, exc[t] # "none",
                       (IF call = "none" THEN <<>> ELSE <<call>>)
                         \o (IF resets THEN <<"reset">> ELSE <<>>),
                       (IF ok THEN exc[t] ELSE "driver"), NoTx)
           /\ log' = IF call = "none" THEN log ELSE LogEnd(log, txs, s)
    /\ UNCHANGED pool
    /\ UNCHANGED <<objs, at>>
    /\ UNCHANGED ext2

\* "await transaction.commit()" in a body, on the object a scope yielded.
ManualCommit(t, s, ok) ==
    /\ Running(t)
    /\ s \in InStack(t)
    /\ LET x == Yielded(s)
       IN  /\ ok \in Outcomes(x)
           /\ txs' = commit(txs, x, ok)
           /\ writes' = WritesEnd(writes, txs, x, "committed", ok)
           /\ exc' = [exc EXCEPT ![t] = IF ok THEN @ ELSE "driver"]
           /\ ev' = Ev("Commit", t, x, FALSE, <<"commit">>,
                       (IF ok THEN "none" ELSE "driver"), NoTx)
           /\ log' = LogEnd(log, txs, x)
    /\ UNCHANGED <<pool, cur, stack>>
    /\ UNCHANGED <<objs, at>>
    /\ UNCHANGED ext2

\* "await transaction.rollback()" in a body, on the object a scope yielded.
ManualRollback(t, s, ok) ==
    /\ Running(t)
    /\ s \in InStack(t)
    /\ LET x == Yielded(s)
       IN  /\ ok \in Outcomes(x)
           /\ txs' = rollback(txs, x, ok)
           /\ writes' = WritesEnd(writes, txs, x, "rolledback", ok)
           /\ exc' = [exc EXCEPT ![t] = IF ok THEN @ ELSE "driver"]
           /\ ev' = Ev("Rollback", t, x, FALSE, <<"rollback">>,
                       (IF ok THEN "none" ELSE "driver"), NoTx)
           /\ log' = LogEnd(log, txs, x)
    /\ UNCHANGED <<pool, cur, stack>>
    /\ UNCHANGED <<objs, at>>
    /\ UNCHANGED ext2

\* A statement that writes one row: engine.run_querystring(insert, in_pool).
\* On the current transaction's connection it joins the driver transaction
\* while that is open; anywhere else the row is durable at once.
Write(t, in_pool) ==
    /\ Running(t)
    /\ LET r == Route(cur[t], in_pool, pool)
           x == IF r = "tx" THEN cur[t] ELSE NoTx
           held == x # NoTx /\ txs[x].dtx = "open"
           w == [tx |-> x, top |-> Top(t),
                 st |-> IF held THEN "pending" ELSE "autocommitted"]
       IN  /\ Cardinality(writes \cup {w}) <= MaxWrites
           /\ writes' = writes \cup {w}
           /\ ev' = Ev("Write", t, x, in_pool, RouteCalls(r, pool), "none", NoTx)
    /\ UNCHANGED <<pool, cur, stack, exc, txs>>
    /\ UNCHANGED ext

\* The body of the innermost scope raises.
Raise(t) ==
    /\ Running(t)
    /\ stack[t] # <<>>
    /\ exc' = [exc EXCEPT ![t] = "body"]
    /\ ev' = Ev("Raise", t, Top(t), FALSE, <<>>, "body", NoTx)
    /\ UNCHANGED <<pool, cur, stack, txs, writes>>
    /\ UNCHANGED ext

\* The caller handles the propagating exception where it now is.
Catch(t) ==
    /\ ~Running(t)
    /\ exc' = [exc EXCEPT ![t] = "none"]
    /\ ev' = Ev("Catch", t, Top(t), FALSE, <<>>, "none", exc[t])
    /\ UNCHANGED <<pool, cur, stack, txs, writes>>
    /\ UNCHANGED ext

Next ==
    \/ \E t \in Tasks, allow \in BOOLEAN : Create(t, allow)
    \/ \E t \in Tasks, s \in TxIds : Enter(t, s)
    \/ \E t \in Tasks, s \in TxIds, begun \in BOOLEAN : EnterFails(t, s, begun)
    \/ \E t \in Tasks, ok \in BOOLEAN : Exit(t, ok)
    \/ \E t \in Tasks, s \in TxIds, ok \in BOOLEAN : ManualCommit(t, s, ok)
    \/ \E t \in Tasks, s \in TxIds, ok \in BOOLEAN : ManualRollback(t, s, ok)
    \/ \E t \in Tasks, in_pool \in BOOLEAN : Write(t, in_pool)
    \/ \E t \in Tasks : Raise(t)
    \/ \E t \in Tasks : Catch(t)

Spec == Init /\ [][Next]_vars

\* PSQLPyEngine.start_connection_pool: a second start warns and keeps the pool.
StartPool ==
    /\ pool' = TRUE
    /\ ev' = Ev("StartPool", "t1", NoTx, pool, <<>>, "none", NoTx)
    /\ UNCHANGED <<cur, stack, exc, txs, writes>>
    /\ UNCHANGED ext

\* PSQLPyEngine.close_connection_pool: closing with no pool warns.
ClosePool ==
    /\ pool' = FALSE
    /\ ev' = Ev("ClosePool", "t1", NoTx, pool, <<>>, "none", NoTx)
    /\ UNCHANGED <<cur, stack, exc, txs, writes>>
    /\ UNCHANGED ext

NextPool == Next \/ StartPool \/ ClosePool

\* The scope operations together with the pool being started and closed.
SpecPool == Init /\ [][NextPool]_vars

\* engine.run_ddl(ddl, in_pool): a statement that writes no row.
RunDdl(t, in_pool) ==
    /\ Running(t)
    /\ LET r == RouteDdl(cur[t], in_pool, pool)
           x == IF r = "tx" THEN cur[t] ELSE NoTx
       IN  ev' = Ev("Ddl", t, x, in_pool, RouteCalls(r, pool), "none", NoTx)
    /\ UNCHANGED <<pool, cur, stack, exc, txs, writes>>
    /\ UNCHANGED ext

NextRouter == NextPool \/ \E t \in Tasks, in_pool \in BOOLEAN : RunDdl(t, in_pool)

\* The scope and pool operations together with both statement entry points.
SpecRouter == Init /\ [][NextRouter]_vars

\* ---- savepoints ----------------------------------------------------------

\* transaction.savepoint() called without a name (name=None).
SpNoName == "<None>"

\* The name test_savepoint_sqli_checks passes: it fails the identifier check.
UnsafeName == "my_savepoint; SELECT * FROM Manager"

\* The names a caller passes: a valid one (which has the form of a default
\* name), the empty string and the unsafe one.
SpNames == {"savepoint_1", "", UnsafeName}

\* Variants of validate_savepoint_name / get_savepoint_id / SavepointConn with
\* a slip in them: every name passes; the counter is read but not advanced;
\* the statement goes where the router would send it.
validate_savepoint_name_Any(n) == TRUE
get_savepoint_id_Same(o) == o.savepoint_id
SavepointConn_Routed(x, current) == current

\* piccolo's validate_savepoint_name, on the names above: TRUE when it returns,
\* FALSE when it raises ValueError.
validate_savepoint_name(n) == n # UnsafeName

\* f"savepoint_{self.get_savepoint_id()}"
DefaultName(id) == "savepoint_" \o ToString(id)

\* "name or ...": the argument counts as a name when it is truthy.
NameGiven(name) == name # SpNoName /\ name # ""

\* PostgresTransaction.get_savepoint_id: the counter after the call.
get_savepoint_id(o) == o.savepoint_id + 1

\* self.transaction.connection: the transaction whose connection a Savepoint
\* of transaction x executes on, given the task's current transaction.
SavepointConn(x, current) == x

\* An entry of log[x]: a row written (k = "w", id its number) or a savepoint
\* set (k = "sp", its name, id the Savepoint object created with it).
LogW(id) == [k |-> "w", id |-> id, name |-> ""]
LogSp(name, id) == [k |-> "sp", id |-> id, name |-> name]

\* The rows driver transaction x holds uncommitted.
Rows(L) == {L[i].id : i \in {j \in 1..Len(L) : L[j].k = "w"}}

\* The places of the savepoints called n that the database knows in L.
Marks(L, n) == {i \in 1..Len(L) : L[i].k = "sp" /\ L[i].name = n}

\* The savepoint a statement naming n refers to: the latest one of that name.
LastMark(L, n) == CHOOSE i \in Marks(L, n) : \A j \in Marks(L, n) : j <= i

\* ROLLBACK TO SAVEPOINT n: everything after the savepoint is undone, the
\* savepoint itself stays.
DbRollbackTo(L, n) == SubSeq(L, 1, LastMark(L, n))

\* RELEASE SAVEPOINT n: the savepoint and those set after it are forgotten,
\* the rows stay.
DbRelease(L, n) ==
    SelectSeq([i \in 1..Len(L) |-> IF i >= LastMark(L, n) /\ L[i].k = "sp"
                                   THEN LogSp("", 0) ELSE L[i]],
              LAMBDA e : e # LogSp("", 0))

\* The Savepoint object o still stands for a savepoint of the database.
Live(o) == \E i \in 1..Len(log[objs[o].tx]) :
              log[objs[o].tx][i] = LogSp(objs[o].name, o)

\* A statement of the body that writes one row while the task's current
\* transaction x is open: the row joins x after everything recorded so far.
\* (Statements routed elsewhere touch no savepoint.)
SpWrite(t) ==
    /\ Running(t)
    /\ LET x == cur[t]
       IN  /\ x # NoTx
           /\ txs[x].dtx = "open"
           /\ Cardinality(Rows(log[x])) < MaxWrites
           /\ log' = [log EXCEPT ![x] = Append(@, LogW(Cardinality(Rows(@)) + 1))]
           /\ ev' = Ev("Write", t, x, TRUE, RouteCalls(Route(x, TRUE, pool), pool),
                       "none", NoTx)
    /\ UNCHANGED <<pool, cur, stack, exc, txs, writes, objs, at>>
    /\ UNCHANGED ext2

\* "await transaction.savepoint(name)" on the object scope s yielded:
\* PostgresTransaction.savepoint.  The counter moves before the name is
\* validated, the name is validated before the driver is asked.  The driver
\* refuses when its transaction is not open, and may refuse or accept a name
\* the transaction already uses.
SpCreate(t, s, name, ok) ==
    /\ Running(t)
    /\ s \in InStack(t)
    /\ Len(objs) < MaxSp
    /\ LET x == Yielded(s)
           given == NameGiven(name)
           id == IF given THEN txs[x].savepoint_id ELSE get_savepoint_id(txs[x])
           n == IF given THEN name ELSE DefaultName(id)
           valid == validate_savepoint_name(n)
           can == valid /\ txs[x].dtx = "open"
           raised == IF ~valid THEN "ValueError" ELSE IF ~ok THEN "driver" ELSE "none"
       IN  /\ id <= MaxSp
           /\ ok \in (IF ~can THEN {FALSE}
                      ELSE IF Marks(log[x], n) # {} THEN BOOLEAN ELSE {TRUE})
           /\ txs' = [txs EXCEPT ![x].savepoint_id = id]
           /\ log' = IF ok THEN [log EXCEPT ![x] = Append(@, LogSp(n, Len(objs) + 1))]
                     ELSE log
           /\ objs' = IF ok THEN Append(objs, [name |-> n, tx |-> x, dflt |-> ~given,
                                               snap |-> Rows(log[x])])
                      ELSE objs
           /\ exc' = [exc EXCEPT ![t] = IF raised = "none" THEN @ ELSE raised]
           /\ ev' = Ev("Savepoint", t, x, n,
                       (IF valid THEN <<"validate", "SAVEPOINT">> ELSE <<"validate">>),
                       raised, (IF valid THEN x ELSE NoTx))
    /\ UNCHANGED <<pool, cur, stack, writes, at>>
    /\ UNCHANGED ext2

\* What Savepoint(n, x).rollback_to() / .release() do: validate the name, then
\* execute the statement on the transaction's connection.  The database
\* refuses it when no transaction is open there or it knows no such savepoint.
SpStatement(t, x, n, stmt, ok) ==
    /\ Running(t)
    /\ LET valid == validate_savepoint_name(n)
           c == SavepointConn(x, cur[t])
           can == /\ valid
                  /\ c # NoTx
                  /\ txs[c].dtx = "open"
                  /\ Marks(log[c], n) # {}
           raised == IF ~valid THEN "ValueError" ELSE IF ~ok THEN "driver" ELSE "none"
       IN  /\ ok = can
           /\ log' = IF ~ok THEN log
                     ELSE [log EXCEPT ![c] = IF stmt = "ROLLBACK TO"
                                             THEN DbRollbackTo(@, n)
                                             ELSE DbRelease(@, n)]
           /\ exc' = [exc EXCEPT ![t] = IF raised = "none" THEN @ ELSE raised]
           /\ ev' = Ev(stmt, t, x, n,
                       (IF valid THEN <<"validate", stmt>> ELSE <<"validate">>),
                       raised, (IF valid THEN c ELSE NoTx))
    /\ UNCHANGED <<pool, cur, stack, txs, writes, objs, at>>
    /\ UNCHANGED ext2

\* "await savepoint.rollback_to()" on a Savepoint the caller holds.
SpRollbackTo(t, o, ok) ==
    /\ o \in 1..Len(objs)
    /\ SpStatement(t, objs[o].tx, objs[o].name, "ROLLBACK TO", ok)

\* "await transaction.rollback_to(name)" on the object scope s yielded:
\* PostgresTransaction.rollback_to builds Savepoint(name, self) for the call.
TxRollbackTo(t, s, name, ok) ==
    /\ s \in InStack(t)
    /\ SpStatement(t, Yielded(s), name, "ROLLBACK TO", ok)

\* "await savepoint.release()" on a Savepoint the caller holds.
SpRelease(t, o, ok) ==
    /\ o \in 1..Len(objs)
    /\ SpStatement(t, objs[o].tx, objs[o].name, "RELEASE", ok)

\* "await Savepoint(name, transaction).release()": a Savepoint built by the
\* caller (Savepoint.__init__ checks nothing).
SpReleaseNamed(t, s, name, ok) ==
    /\ s \in InStack(t)
    /\ SpStatement(t, Yielded(s), name, "RELEASE", ok)

\* "async with engine.transaction() as transaction:": the scope object is
\* constructed in the with statement, so it is entered before another is made.
SpOpen(t) ==
    /\ \A s \in TxIds : txs[s].st # "created"
    /\ Create(t, TRUE)

\* Savepoints in scopes written as with statements; an exception of a
\* savepoint operation leaves the scopes it is in (as in
\* test_savepoint_sqli_checks) and is not handled inside them.
NextSavepoint ==
    \/ \E t \in Tasks : SpOpen(t)
    \/ \E t \in Tasks, s \in TxIds : Enter(t, s)
    \/ \E t \in Tasks, ok \in BOOLEAN : Exit(t, ok)
    \/ \E t \in Tasks : SpWrite(t)
    \/ \E t \in Tasks, s \in TxIds, name \in SpNames \cup {SpNoName}, ok \in BOOLEAN :
          SpCreate(t, s, name, ok)
    \/ \E t \in Tasks, o \in 1..MaxSp, ok \in BOOLEAN : SpRollbackTo(t, o, ok)
    \/ \E t \in Tasks, s \in TxIds, name \in SpNames, ok \in BOOLEAN :
          TxRollbackTo(t, s, name, ok)
    \/ \E t \in Tasks, o \in 1..MaxSp, ok \in BOOLEAN : SpRelease(t, o, ok)
    \/ \E t \in Tasks, s \in TxIds, name \in SpNames, ok \in BOOLEAN :
          SpReleaseNamed(t, s, name, ok)

SpecSavepoint == Init /\ [][NextSavepoint]_vars

\* ---- Atomic ---------------------------------------------------------------

\* What a caller hands to Atomic.add: a query that runs ("ok"), one whose
\* run raises ("bad", the malformed statement of test_atomic_error_statement),
\* or something that is no query at all ("junk").
QueryKinds == {"ok", "bad", "junk"}

\* The argument lists of one add call: one query or two.
AddArgs == {<<k>> : k \in QueryKinds} \cup {<<k, l>> : k \in QueryKinds, l \in {"ok"}}

\* A variant of the clearing with a slip in it: only a clean run clears.
QueriesAfterRun_SuccessOnly(q, raised) == IF raised = "none" THEN <<>> ELSE q

\* Atomic.add: self.queries += list(query).  The n-th query added gets id n.
add(q, n, kinds) ==
    q \o [k \in 1..Len(kinds) |-> [id |-> n + k, kind |-> kinds[k]]]

\* isinstance(query, (Query, DDL, Create, GetOrCreate))
IsQuery(q) == q.kind # "junk"

\* self.queries = [] after the with block, and in the except clause.
QueriesAfterRun(q, raised) == <<>>

\* The ids of a list of queries (or of executed queries), in order.
Ids(q) == [k \in 1..Len(q) |-> q[k].id]

\* "transaction.add(...)" between runs.
AtomicAdd(t, kinds) ==
    /\ Running(t)
    /\ at.pc = "idle"
    /\ at.added + Len(kinds) <= MaxAdd
    /\ at' = [at EXCEPT !.queries = add(@, at.added, kinds),
                        !.added = @ + Len(kinds)]
    /\ ev' = Ev("AtomicAdd", t, NoTx, FALSE, <<>>, "none", NoTx)
    /\ UNCHANGED <<pool, cur, stack, exc, txs, writes, log, objs>>
    /\ UNCHANGED ext2

\* Atomic.run up to the loop: "async with self.engine.transaction()"
\* constructs a scope (nesting allowed, so it is never rejected) and enters
\* it.  how: entry succeeds, or acquiring the connection raises, or the
\* driver's begin raises; a failed entry goes straight to the except clause.
AtomicBegin(t, how) ==
    /\ Running(t)
    /\ at.pc = "idle"
    /\ FreeIds # {}
    /\ LET s == NextId
           o == [FreeTx EXCEPT !.st = "created", !.allow_nested = TRUE,
                               !.parent = InitParent(cur[t], TRUE)]
       IN  /\ how \in (IF IsNested(o) THEN {"ok"} ELSE {"ok", "connection", "begin"})
           /\ IF how # "ok"
              THEN /\ txs' = [txs EXCEPT ![s] = [o EXCEPT !.st = "failed"]]
                   /\ exc' = [exc EXCEPT ![t] = "driver"]
                   /\ at' = [at EXCEPT !.queries = QueriesAfterRun(@, "driver"),
                                       !.scope = s, !.start = at.queries,
                                       !.ran = <<>>, !.prev = at.added]
                   /\ ev' = Ev("AtomicBegin", t, s, FALSE,
                               (IF how = "begin" THEN <<ConnSource(pool), "begin">>
                                ELSE <<ConnSource(pool)>>), "driver", NoTx)
                   /\ UNCHANGED <<cur, stack>>
              ELSE /\ txs' = [txs EXCEPT ![s] =
                                 IF IsNested(o) THEN [o EXCEPT !.st = "entered"]
                                 ELSE [o EXCEPT !.st = "entered", !.dtx = "open",
                                                !.context = cur[t]]]
                   /\ cur' = [cur EXCEPT ![t] = IF IsNested(o) THEN @ ELSE s]
                   /\ stack' = [stack EXCEPT ![t] = <<s>> \o @]
                   /\ at' = [at EXCEPT !.pc = "loop", !.i = 1, !.scope = s,
                                       !.start = at.queries, !.ran = <<>>]
                   /\ ev' = Ev("AtomicBegin", t, s, FALSE,
                               (IF IsNested(o) THEN <<>>
                                ELSE <<ConnSource(pool), "begin", "set">>),
                               "none", Yielded(s))
                   /\ UNCHANGED exc
    /\ UNCHANGED <<pool, writes, log, objs>>
    /\ UNCHANGED ext2

\* One turn of "for query in self.queries": something that is no query
\* raises TypeError; a query is run (query.run() -> engine.run_querystring
\* with in_pool left at its default) and writes its row or raises.
AtomicQuery(t) ==
    /\ Running(t)
    /\ at.pc = "loop"
    /\ ~at.exiting
    /\ at.i <= Len(at.queries)
    /\ LET q == at.queries[at.i]
           r == Route(cur[t], TRUE, pool)
           x == IF r = "tx" THEN cur[t] ELSE NoTx
           held == x # NoTx /\ txs[x].dtx = "open"
           w == [tx |-> x, top |-> Top(t),
                 st |-> IF held THEN "pending" ELSE "autocommitted"]
           raised == IF ~IsQuery(q) THEN "TypeError"
                     ELSE IF q.kind = "bad" THEN "query" ELSE "none"
       IN  /\ raised = "none" => Cardinality(writes \cup {w}) <= MaxWrites
           /\ writes' = IF raised = "none" THEN writes \cup {w} ELSE writes
           /\ at' = [at EXCEPT !.i = @ + 1,
                               !.ran = IF raised = "none"
                                       THEN Append(@, [id |-> q.id, tx |-> x, held |-> held])
                                       ELSE @]
           /\ exc' = [exc EXCEPT ![t] = raised]
           /\ ev' = Ev("AtomicQuery", t, x, FALSE,
                       (IF IsQuery(q) THEN RouteCalls(r, pool) ELSE <<>>), raised, NoTx)
    /\ UNCHANGED <<pool, cur, stack, txs, log, objs>>
    /\ UNCHANGED ext2

\* The rest of Atomic.run: the with block is left (by the loop ending or by
\* the exception) through __aexit__ of the scope, the pending list is
\* cleared, and what was raised is raised to the caller.
AtomicEnd(t, ok) ==
    /\ at.pc = "loop"
    /\ at.exiting \/ ~Running(t) \/ at.i > Len(at.queries)
    /\ LET s == Top(t)
           o == txs[s]
           call == ExitCall(o, exc[t] # "none")
           T1 == IF call = "commit" THEN commit(txs, s, ok)
                 ELSE IF call = "rollback" THEN rollback(txs, s, ok)
                 ELSE txs
           kind == IF call = "commit" THEN "committed" ELSE "rolledback"
           resets == ~IsNested(o) /\ ok
           raised == IF ok THEN exc[t] ELSE "driver"
       IN  /\ ok \in (IF call = "none" THEN {TRUE} ELSE Outcomes(s))
           /\ writes' = IF call = "none" THEN writes
                        ELSE WritesEnd(writes, txs, s, kind, ok)
           /\ txs' = [T1 EXCEPT ![s].st = "exited"]
           /\ stack' = [stack EXCEPT ![t] = Tail(@)]
           /\ cur' = [cur EXCEPT ![t] = IF resets THEN o.context ELSE @]
           /\ exc' = [exc EXCEPT ![t] = raised]
           /\ at' = [at EXCEPT !.queries = QueriesAfterRun(@, raised),
                               !.pc = "idle", !.prev = at.added,
                               !.exiting = FALSE]
           /\ ev' = Ev("AtomicEnd", t, s, exc[t] # "none",
                       (IF call = "none" THEN <<>> ELSE <<call>>)
                         \o (IF resets THEN <<"reset">> ELSE <<>>),
                       raised, NoTx)
           /\ log' = IF call = "none" THEN log ELSE LogEnd(log, txs, s)
    /\ UNCHANGED <<pool, objs>>
    /\ UNCHANGED ext2

\* What the task does around a run, between runs: scopes written as with
\* statements, left cleanly or with a failing driver call, and exceptions
\* handled where they arrive.
AtOpen(t) == at.pc = "idle" /\ SpOpen(t)
AtEnter(t, s) == at.pc = "idle" /\ Enter(t, s)
AtExit(t, ok) == at.pc = "idle" /\ Exit(t, ok)
AtCatch(t) == at.pc = "idle" /\ Catch(t)

NextAtomic ==
    \/ \E t \in Tasks : AtOpen(t)
    \/ \E t \in Tasks, s \in TxIds : AtEnter(t, s)
    \/ \E t \in Tasks, ok \in BOOLEAN : AtExit(t, ok)
    \/ \E t \in Tasks : AtCatch(t)
    \/ \E t \in Tasks, kinds \in AddArgs : AtomicAdd(t, kinds)
    \/ \E t \in Tasks, how \in {"ok", "connection", "begin"} : AtomicBegin(t, how)
    \/ \E t \in Tasks : AtomicQuery(t)
    \/ \E t \in Tasks, ok \in BOOLEAN : AtomicEnd(t, ok)

SpecAtomic == Init /\ [][NextAtomic]_vars

\* ---- the pool as an object ------------------------------------------------

\* The keyword arguments of a start call: none, or max_size=BigSize.
NoKw == 0
BigSize == 5
Kwargs == {NoKw, BigSize}

\* max_db_pool_size=config.pop("max_size", 2), for a configuration that
\* sets no max_size of its own.
DefaultMaxSize == 2

\* A variant of the start with a slip in it: it always builds a pool.
start_pool_Replace(P, kw) ==
    [P EXCEPT !.made = @ + 1, !.held = P.made + 1,
              !.size = IF kw = NoKw THEN DefaultMaxSize ELSE kw]

\* config = dict(self.config); config.update(**kwargs); ... pop("max_size", 2)
PoolSize(kw) == IF kw = NoKw THEN DefaultMaxSize ELSE kw

\* The body of start_connection_pool(**kwargs): "if self.pool" warn, else
\* self.pool = ConnectionPool(...).
start_pool(P, kw) ==
    IF P.held # 0 THEN P
    ELSE [P EXCEPT !.made = @ + 1, !.held = P.made + 1, !.size = PoolSize(kw)]

\* The body of close_connection_pool: "if self.pool" close it and unset
\* it, else warn.
close_pool(P) ==
    IF P.held # 0
    THEN [P EXCEPT !.held = 0, !.size = 0, !.closed = @ \cup {P.held}]
    ELSE P

\* What the two bodies call.
StartCalls(P) == IF P.held # 0 THEN <<"warn">> ELSE <<"ConnectionPool">>
CloseCalls(P) == IF P.held # 0 THEN <<"close">> ELSE <<"warn">>

\* "await engine.start_connection_pool(**kwargs)"
start_connection_pool(kw) ==
    /\ pl.held # 0 \/ pl.made < MaxPools
    /\ pl' = start_pool(pl, kw)
    /\ pool' = (pl'.held # 0)
    /\ ev' = Ev("start_connection_pool", "t1", NoTx, pool, StartCalls(pl), "none", pl'.held)
    /\ UNCHANGED <<cur, stack, exc, txs, writes, log, objs, at, started, nd, bt, extensions>>

\* "await engine.close_connection_pool()"
close_connection_pool ==
    /\ pl' = close_pool(pl)
    /\ pool' = (pl'.held # 0)
    /\ ev' = Ev("close_connection_pool", "t1", NoTx, pool, CloseCalls(pl), "none", pl'.held)
    /\ UNCHANGED <<cur, stack, exc, txs, writes, log, objs, at, started, nd, bt, extensions>>

\* "await engine.start_connnection_pool(**_kwargs)": the deprecation warning,
\* then "return await self.start_connection_pool()".
start_connnection_pool(kw) ==
    /\ pl.held # 0 \/ pl.made < MaxPools
    /\ pl' = start_pool(pl, NoKw)
    /\ pool' = (pl'.held # 0)
    /\ ev' = Ev("start_connnection_pool", "t1", NoTx, pool,
                <<"deprecation">> \o StartCalls(pl), "none", pl'.held)
    /\ UNCHANGED <<cur, stack, exc, txs, writes, log, objs, at, started, nd, bt, extensions>>

\* "await engine.close_connnection_pool(**_kwargs)": the deprecation warning,
\* then "return await self.close_connection_pool()".
close_connnection_pool(kw) ==
    /\ pl' = close_pool(pl)
    /\ pool' = (pl'.held # 0)
    /\ ev' = Ev("close_connnection_pool", "t1", NoTx, pool,
                <<"deprecation">> \o CloseCalls(pl), "none", pl'.held)
    /\ UNCHANGED <<cur, stack, exc, txs, writes, log, objs, at, started, nd, bt, extensions>>

\* Starts and closes of the pool, under either spelling, with statements
\* and transaction scopes in between.
NextPoolLife ==
    \/ \E kw \in Kwargs : start_connection_pool(kw)
    \/ close_connection_pool
    \/ \E kw \in Kwargs : start_connnection_pool(kw)
    \/ \E kw \in Kwargs : close_connnection_pool(kw)
    \/ \E t \in Tasks, in_pool \in BOOLEAN : Write(t, in_pool)
    \/ \E t \in Tasks : SpOpen(t)
    \/ \E t \in Tasks, s \in TxIds : Enter(t, s)
    \/ \E t \in Tasks, ok \in BOOLEAN : Exit(t, ok)

SpecPoolLife == Init /\ [][NextPoolLife]_vars

\* ---- tasks -----------------------------------------------------------------

\* asyncio.create_task / asyncio.gather in task p: the new task c runs in a
\* copy of p's context, so its slot starts with the value p's slot has now.
Spawn(p, c) ==
    /\ p \in started
    /\ c \notin started
    /\ Running(p)
    /\ started' = started \cup {c}
    /\ cur' = [cur EXCEPT ![c] = cur[p]]
    /\ ev' = Ev("Spawn", p, cur[p], FALSE, <<"copy_context">>, "none", NoTx)
    /\ UNCHANGED <<pool, stack, exc, txs, writes, log, objs, at, pl, nd, bt, extensions>>

\* What a started task does: "async with engine.transaction()" (the object
\* is constructed and, as the task's next step, entered), the end of its
\* innermost block, statements, and handling what was raised.
TkOpen(t) == t \in started /\ Create(t, TRUE)
TkEnter(t, s) ==
    /\ t \in started
    /\ ev.op = "Create" /\ ev.task = t /\ ev.ret = s
    /\ Enter(t, s)
TkExit(t, ok) == t \in started /\ Exit(t, ok)
TkWrite(t, in_pool) == t \in started /\ Write(t, in_pool)
TkCatch(t) == t \in started /\ Catch(t)

NextTasks ==
    \/ \E p \in AllTasks, c \in AllTasks : Spawn(p, c)
    \/ \E t \in AllTasks : TkOpen(t)
    \/ \E t \in AllTasks, s \in TxIds : TkEnter(t, s)
    \/ \E t \in AllTasks, ok \in BOOLEAN : TkExit(t, ok)
    \/ \E t \in AllTasks, in_pool \in BOOLEAN : TkWrite(t, in_pool)
    \/ \E t \in AllTasks : TkCatch(t)

SpecTasks == Init /\ [][NextTasks]_vars

\* ---- a second engine ---------------------------------------------------------

\* A variant of the slot with a slip in it: the variable is found by its
\* name, so engines of one database name share it.
ContextVarOf_ByName(e, same) == IF same THEN "main" ELSE e

\* self.current_transaction = contextvars.ContextVar(f"pg_current_
\* transaction_{database_name}", default=None): the object each engine makes
\* for itself; the name is a label and identifies nothing.
ContextVarOf(e, same) == e

\* The value the node engine's current_transaction has in task t's context.
NodeSlot(t) == IF ContextVarOf("node", nd.same) = "main" THEN cur[t] ELSE nd.cur

\* extra_nodes={"read_1": PSQLPyEngine(config=...)}
NodeMake(same) ==
    /\ ~nd.made
    /\ nd' = [nd EXCEPT !.made = TRUE, !.same = same]
    /\ ev' = Ev("NodeMake", "t1", NoTx, same, <<"ContextVar">>, "none", NoTx)
    /\ UNCHANGED <<pool, cur, stack, exc, txs, writes, log, objs, at, pl, started, bt, extensions>>

\* "async with node.transaction()": PostgresTransaction.__init__ and
\* __aenter__ with the node as engine.
NodeOpen(t) ==
    /\ nd.made
    /\ Running(t)
    /\ FreeIds # {}
    /\ \A r \in TxIds : txs[r].st # "created"
    /\ LET s == NextId
           o == [FreeTx EXCEPT !.st = "entered", !.allow_nested = TRUE,
                               !.parent = InitParent(NodeSlot(t), TRUE)]
           joins == IsNested(o)
           v == IF joins THEN NodeSlot(t) ELSE s
       IN  /\ txs' = [txs EXCEPT ![s] =
                         IF joins THEN o
                         ELSE [o EXCEPT !.dtx = "open", !.context = NodeSlot(t)]]
           /\ IF ContextVarOf("node", nd.same) = "main"
              THEN /\ cur' = [cur EXCEPT ![t] = v]
                   /\ nd' = [nd EXCEPT !.txs = @ \cup {s}]
              ELSE /\ nd' = [nd EXCEPT !.txs = @ \cup {s}, !.cur = v]
                   /\ UNCHANGED cur
           /\ stack' = [stack EXCEPT ![t] = <<s>> \o @]
           /\ ev' = Ev("NodeEnter", t, s, TRUE,
                       (IF joins THEN <<>> ELSE <<"new", "begin", "set">>),
                       "none", (IF joins THEN o.parent ELSE s))
    /\ UNCHANGED <<pool, exc, writes, log, objs, at, pl, started, bt, extensions>>

\* The end of the block of a scope of the node: __aexit__ with the node as
\* engine.
NodeExit(t, ok) ==
    /\ stack[t] # <<>>
    /\ Top(t) \in nd.txs
    /\ LET s == Top(t)
           o == txs[s]
           call == ExitCall(o, exc[t] # "none")
           T1 == IF call = "commit" THEN commit(txs, s, ok)
                 ELSE IF call = "rollback" THEN rollback(txs, s, ok)
                 ELSE txs
           kind == IF call = "commit" THEN "committed" ELSE "rolledback"
           resets == ~IsNested(o) /\ ok
       IN  /\ ok \in (IF call = "none" THEN {TRUE} ELSE Outcomes(s))
           /\ writes' = IF call = "none" THEN writes
                        ELSE WritesEnd(writes, txs, s, kind, ok)
           /\ txs' = [T1 EXCEPT ![s].st = "exited"]
           /\ stack' = [stack EXCEPT ![t] = Tail(@)]
           /\ IF ~resets THEN UNCHANGED <<cur, nd>>
              ELSE IF ContextVarOf("node", nd.same) = "main"
              THEN cur' = [cur EXCEPT ![t] = o.context] /\ UNCHANGED nd
              ELSE nd' = [nd EXCEPT !.cur = o.context] /\ UNCHANGED cur
           /\ exc' = [exc EXCEPT ![t] = IF ok THEN @ ELSE "driver"]
           /\ ev' = Ev("NodeExit", t, s, exc[t] # "none",
                       (IF call = "none" THEN <<>> ELSE <<call>>)
                         \o (IF resets THEN <<"reset">> ELSE <<>>),
                       (IF ok THEN exc[t] ELSE "driver"), NoTx)
    /\ UNCHANGED <<pool, log, objs, at, pl, started, bt, extensions>>

\* "await query.run(node=...)": run_querystring of the node (which has no
\* pool of its own running).
NodeWrite(t, in_pool) ==
    /\ nd.made
    /\ Running(t)
    /\ LET r == Route(NodeSlot(t), in_pool, FALSE)
           x == IF r = "tx" THEN NodeSlot(t) ELSE NoTx
           held == x # NoTx /\ txs[x].dtx = "open"
           w == [tx |-> x, top |-> Top(t),
                 st |-> IF held THEN "pending" ELSE "autocommitted"]
       IN  /\ Cardinality(writes \cup {w}) <= MaxWrites
           /\ writes' = writes \cup {w}
           /\ ev' = Ev("NodeWrite", t, x, in_pool, RouteCalls(r, FALSE), "none", NoTx)
    /\ UNCHANGED <<pool, cur, stack, exc, txs, log, objs, at, pl, started, nd, bt, extensions>>

\* The main engine's scopes and statements next to the node's.
NdEnter(t, s) == s \notin nd.txs /\ Enter(t, s)
NdExit(t, ok) == stack[t] # <<>> /\ Top(t) \notin nd.txs /\ Exit(t, ok)

NextNodes ==
    \/ \E same \in BOOLEAN : NodeMake(same)
    \/ \E t \in Tasks : NodeOpen(t)
    \/ \E t \in Tasks, ok \in BOOLEAN : NodeExit(t, ok)
    \/ \E t \in Tasks, in_pool \in BOOLEAN : NodeWrite(t, in_pool)
    \/ \E t \in Tasks : SpOpen(t)
    \/ \E t \in Tasks, s \in TxIds : NdEnter(t, s)
    \/ \E t \in Tasks, ok \in BOOLEAN : NdExit(t, ok)
    \/ \E t \in Tasks, in_pool \in BOOLEAN : Write(t, in_pool)

SpecNodes == Init /\ [][NextNodes]_vars

\* ---- statements that fail --------------------------------------------------

\* A variant of the statement call with a slip in it: it raises an error of
\* the adapter's own in place of the driver's.
StatementRaises_Wrapped(e) == "adapter"

\* What run_querystring / run_ddl raise when the driver raised e: there is
\* no handler between the driver call and the caller.
StatementRaises(e) == e

\* What a statement call calls: its branch (and for _run_in_new_connection
\* where the connection came from), the driver call, and, only in
\* _run_in_new_connection and only when the driver call returned,
\* connection.back_to_pool().
StatementCalls(r, p, ok) ==
    RouteCalls(r, p)
      \o <<IF r = "tx" THEN "fetch" ELSE "execute">>
      \o (IF r = "new" /\ ok THEN <<"back_to_pool">> ELSE <<>>)

\* "await engine.run_querystring(...)" (ddl: "await engine.run_ddl(...)") with
\* its outcome: the driver executes the statement, which writes a row, or
\* raises (malformed SQL, a constraint).  The task issues no statement of
\* its own while its Atomic.run is in progress.
RunStatement(t, in_pool, ddl, ok) ==
    /\ Running(t)
    /\ at.pc = "idle"
    /\ LET r == IF ddl THEN RouteDdl(cur[t], in_pool, pool)
                ELSE Route(cur[t], in_pool, pool)
           x == IF r = "tx" THEN cur[t] ELSE NoTx
           held == x # NoTx /\ txs[x].dtx = "open"
           w == [tx |-> x, top |-> Top(t),
                 st |-> IF held THEN "pending" ELSE "autocommitted"]
           raised == IF ok THEN "none" ELSE StatementRaises("query")
       IN  /\ ok => Cardinality(writes \cup {w}) <= MaxWrites
           /\ writes' = IF ok THEN writes \cup {w} ELSE writes
           /\ exc' = [exc EXCEPT ![t] = raised]
           /\ ev' = Ev((IF ddl THEN "run_ddl" ELSE "run_querystring"), t, x, in_pool,
                       StatementCalls(r, pool, ok), raised, NoTx)
    /\ UNCHANGED <<pool, cur, stack, txs>>
    /\ UNCHANGED ext

\* "await transaction.savepoint()" between runs of the builder; the driver
\* may refuse it.
ErSavepoint(t, s, ok) == at.pc = "idle" /\ SpCreate(t, s, SpNoName, ok)

\* Failing statements wherever the adapter passes them on: outside and
\* inside scopes (outermost and nested) on every route, in Atomic.run (a
\* batch of failing queries), and in savepoint operations.
NextErrors ==
    \/ StartPool
    \/ ClosePool
    \/ \E t \in Tasks : AtOpen(t)
    \/ \E t \in Tasks, s \in TxIds : AtEnter(t, s)
    \/ \E t \in Tasks, ok \in BOOLEAN : AtExit(t, ok)
    \/ \E t \in Tasks : AtCatch(t)
    \/ \E t \in Tasks, in_pool \in BOOLEAN, ddl \in BOOLEAN :
          RunStatement(t, in_pool, ddl, FALSE)
    \/ \E t \in Tasks, s \in TxIds, ok \in BOOLEAN : ErSavepoint(t, s, ok)
    \/ \E t \in Tasks : AtomicAdd(t, <<"bad">>)
    \/ \E t \in Tasks : AtomicBegin(t, "ok")
    \/ \E t \in Tasks : AtomicQuery(t)
    \/ \E t \in Tasks, ok \in BOOLEAN : AtomicEnd(t, ok)

SpecErrors == Init /\ [][NextErrors]_vars

\* Statements that succeed or fail, outside and inside scopes, on every
\* route.
NextConns ==
    \/ StartPool
    \/ ClosePool
    \/ \E t \in Tasks : SpOpen(t)
    \/ \E t \in Tasks, s \in TxIds : Enter(t, s)
    \/ \E t \in Tasks, s \in TxIds, begun \in BOOLEAN : EnterFails(t, s, begun)
    \/ \E t \in Tasks, ok \in BOOLEAN : Exit(t, ok)
    \/ \E t \in Tasks : Catch(t)
    \/ \E t \in Tasks, in_pool \in BOOLEAN, ddl \in BOOLEAN, ok \in BOOLEAN :
          RunStatement(t, in_pool, ddl, ok)

SpecConns == Init /\ [][NextConns]_vars

\* ---- Atomic.add while a run is in progress ---------------------------------

\* The loop of run is over (the list is exhausted, or an exception left it)
\* and __aexit__ of the scope has issued its commit or rollback, which run
\* now awaits.  A scope with a parent awaits nothing on exit.
AtomicExiting(t) ==
    /\ at.pc = "loop"
    /\ ~at.exiting
    /\ ~Running(t) \/ at.i > Len(at.queries)
    /\ ExitCall(txs[Top(t)], exc[t] # "none") # "none"
    /\ at' = [at EXCEPT !.exiting = TRUE]
    /\ ev' = Ev("AtomicExiting", t, Top(t), exc[t] # "none",
                <<ExitCall(txs[Top(t)], exc[t] # "none")>>, "none", NoTx)
    /\ UNCHANGED <<pool, cur, stack, exc, txs, writes, log, objs>>
    /\ UNCHANGED ext2

\* The awaited call of __aexit__ returns or raises and run finishes.
AtomicFinish(t, ok) ==
    /\ at.pc = "loop"
    /\ at.exiting \/ ExitCall(txs[Top(t)], exc[t] # "none") = "none"
    /\ AtomicEnd(t, ok)

\* "transaction.add(...)" by task u while the run of another task awaits:
\* the begin, a query, or the commit or rollback.  The list is extended in
\* place.
AtomicAddDuring(u, kinds) ==
    /\ u \in started
    /\ Running(u)
    /\ at.pc = "loop"
    /\ at.exiting \/ at.i <= Len(at.queries) \/ at.i = 1
    /\ at.added + Len(kinds) <= MaxAdd
    /\ at' = [at EXCEPT !.queries = add(@, at.added, kinds),
                        !.added = @ + Len(kinds)]
    /\ ev' = Ev("AtomicAddDuring", u, NoTx, at.exiting, <<>>, "none", NoTx)
    /\ UNCHANGED <<pool, cur, stack, exc, txs, writes, log, objs>>
    /\ UNCHANGED ext2

\* What is handled between runs.
AaCatch(t) == at.pc = "idle" /\ Catch(t)

NextAtomicAdd ==
    \/ Spawn("t1", "t2")
    \/ \E kinds \in AddArgs : AtomicAdd("t1", kinds)
    \/ \E how \in {"ok", "connection", "begin"} : AtomicBegin("t1", how)
    \/ AtomicQuery("t1")
    \/ AtomicExiting("t1")
    \/ \E ok \in BOOLEAN : AtomicFinish("t1", ok)
    \/ \E kinds \in AddArgs : AtomicAddDuring("t2", kinds)
    \/ AaCatch("t1")

SpecAtomicAdd == Init /\ [][NextAtomicAdd]_vars

\* ---- AsyncBatch -------------------------------------------------------------

\* A variant of the end of the block that always commits.
BatchEndCall_Commit(failing) == "commit"

\* "if exception: rollback() else: commit()" in AsyncBatch.__aexit__.
BatchEndCall(failing) == IF failing THEN "rollback" ELSE "commit"

\* What AsyncBatch.__aexit__ returns when its driver call returned:
\* "return exception is not None".
BatchExitReturns(failing) == failing

\* "await engine.batch(query)": the connection comes from get_new_connection.
BatchMake(t) ==
    /\ Running(t)
    /\ bt.st \in {"none", "closed", "failed"}
    /\ bt' = [NoBatch EXCEPT !.st = "made", !.src = get_new_connection(pool)]
    /\ ev' = Ev("BatchMake", t, NoTx, FALSE, <<get_new_connection(pool)>>, "none", NoTx)
    /\ UNCHANGED <<pool, cur, stack, exc, txs, writes, log, objs, at, pl, started, nd, extensions>>

\* "async with batch": AsyncBatch.__aenter__ begins a driver transaction of
\* its own on the connection and then creates the cursor; how: both succeed
\* ("ok"), the begin raises ("begin"), or compiling the query or creating
\* the cursor raises after the begin ("cursor").  __aexit__ runs only for a
\* block that was entered.
BatchEnter(t, how) ==
    /\ Running(t)
    /\ bt.st = "made"
    /\ bt' = [bt EXCEPT !.st = IF how = "ok" THEN "open" ELSE "failed",
                        !.dtx = IF how = "begin" THEN "failed" ELSE "open",
                        !.cursor = how = "ok"]
    /\ exc' = [exc EXCEPT ![t] = IF how = "ok" THEN @ ELSE "driver"]
    /\ ev' = Ev("BatchEnter", t, NoTx, FALSE,
                (IF how = "begin" THEN <<"transaction", "begin">>
                 ELSE <<"transaction", "begin", "cursor">>),
                (IF how = "ok" THEN "none" ELSE "driver"), NoTx)
    /\ UNCHANGED <<pool, cur, stack, txs, writes, log, objs, at, pl, started, nd, extensions>>

\* What the n-th fetch that finds rows returns, and what a fetch returns
\* when no rows are left.
BatchRows(n) == <<n>>
NoBatchRows == <<>>

\* A variant of the end test of __anext__ that never ends the iteration.
IterationEnds_Never(response) == FALSE

\* "if response == []: raise StopAsyncIteration" in __anext__.
IterationEnds(response) == response = NoBatchRows

\* AsyncBatch.next() in the block: the fetch returns rows, returns none, or
\* the driver raises.
FetchResult(res) ==
    IF res = "rows" THEN BatchRows(bt.fetched + 1) ELSE NoBatchRows

\* "await batch.next()" in the block.
BatchNext(t, res) ==
    /\ Running(t)
    /\ bt.st = "open"
    /\ res = "rows" => bt.fetched < MaxFetch
    /\ bt' = [bt EXCEPT !.fetched = IF res = "rows" THEN @ + 1 ELSE @]
    /\ exc' = [exc EXCEPT ![t] = IF res = "fail" THEN "query" ELSE @]
    /\ ev' = Ev("BatchNext", t, NoTx, FALSE, <<"fetch">>,
                (IF res = "fail" THEN "query" ELSE "none"), FetchResult(res))
    /\ UNCHANGED <<pool, cur, stack, txs, writes, log, objs, at, pl, started, nd, extensions>>

\* One round of "async for rows in batch" in the block: __anext__ calls
\* next(); an end of the iteration (StopAsyncIteration) ends the loop and is
\* no exception of the block; otherwise the response is what the loop gets.
BatchIter(t, res) ==
    /\ Running(t)
    /\ bt.st = "open"
    /\ res = "rows" => bt.fetched < MaxFetch
    /\ LET response == FetchResult(res)
           stop == res # "fail" /\ IterationEnds(response)
       IN  /\ bt' = [bt EXCEPT !.fetched = IF res = "rows" THEN @ + 1 ELSE @,
                               !.yielded = IF res = "fail" \/ stop THEN @
                                           ELSE Append(@, response)]
           /\ exc' = [exc EXCEPT ![t] = IF res = "fail" THEN "query" ELSE @]
           /\ ev' = Ev("BatchIter", t, NoTx, stop, <<"fetch">>,
                       (IF res = "fail" THEN "query" ELSE "none"), response)
    /\ UNCHANGED <<pool, cur, stack, txs, writes, log, objs, at, pl, started, nd, extensions>>

\* "await batch.next()" (iterating: one round of "async for") on a batch
\* that was not entered: the cursor property raises ValueError before
\* anything is fetched.
BatchNextEarly(t, iterating) ==
    /\ Running(t)
    /\ bt.st \in {"made", "failed"}
    /\ ~bt.cursor
    /\ exc' = [exc EXCEPT ![t] = "ValueError"]
    /\ ev' = Ev("BatchNextEarly", t, NoTx, iterating, <<>>, "ValueError", NoBatchRows)
    /\ UNCHANGED <<pool, cur, stack, txs, writes, log, objs, at, pl, started, nd, bt, extensions>>

\* The block of the batch raises.
BatchRaise(t) ==
    /\ Running(t)
    /\ bt.st = "open"
    /\ exc' = [exc EXCEPT ![t] = "body"]
    /\ ev' = Ev("BatchRaise", t, NoTx, FALSE, <<>>, "body", NoTx)
    /\ UNCHANGED <<pool, cur, stack, txs, writes, log, objs, at, pl, started, nd, bt, extensions>>

\* The end of the block: AsyncBatch.__aexit__ rolls back when an exception
\* is in flight and commits otherwise; when that call returned it returns
\* BatchExitReturns, and a true value makes the with statement drop the
\* exception.
BatchExit(t, ok) ==
    /\ bt.st = "open"
    /\ LET failing == exc[t] # "none"
           call == BatchEndCall(failing)
           raised == IF ~ok THEN "driver"
                     ELSE IF BatchExitReturns(failing) THEN "none" ELSE exc[t]
       IN  /\ bt' = [bt EXCEPT !.st = "closed",
                               !.dtx = IF ~ok THEN "failed"
                                       ELSE IF call = "rollback" THEN "rolledback"
                                       ELSE "committed"]
           /\ exc' = [exc EXCEPT ![t] = raised]
           /\ ev' = Ev("BatchExit", t, NoTx, failing, <<call>>, raised, NoTx)
    /\ UNCHANGED <<pool, cur, stack, txs, writes, log, objs, at, pl, started, nd, extensions>>

\* The caller handles what left the batch's block.
BtCatch(t) == bt.st # "open" /\ Catch(t)

\* Transaction scopes around the batch's block: entered and left while the
\* block is not open.
BtScopeEnter(t, s) == bt.st # "open" /\ Enter(t, s)
BtScopeExit(t, ok) == bt.st # "open" /\ Exit(t, ok)

NextBatch ==
    \/ StartPool
    \/ ClosePool
    \/ \E t \in Tasks : BatchMake(t)
    \/ \E t \in Tasks, how \in {"ok", "begin", "cursor"} : BatchEnter(t, how)
    \/ \E t \in Tasks, res \in {"rows", "empty", "fail"} : BatchNext(t, res)
    \/ \E t \in Tasks, res \in {"rows", "empty", "fail"} : BatchIter(t, res)
    \/ \E t \in Tasks, iterating \in BOOLEAN : BatchNextEarly(t, iterating)
    \/ \E t \in Tasks : SpOpen(t)
    \/ \E t \in Tasks, s \in TxIds : BtScopeEnter(t, s)
    \/ \E t \in Tasks, ok \in BOOLEAN : BtScopeExit(t, ok)
    \/ \E t \in Tasks : BatchRaise(t)
    \/ \E t \in Tasks, ok \in BOOLEAN : BatchExit(t, ok)
    \/ \E t \in Tasks : BtCatch(t)

SpecBatch == Init /\ [][NextBatch]_vars

\* ---- start-up: get_version and prep_database ------------------------------

ExtNames == {"uuid-ossp", "citext"}
ExtLists == UNION {[1..n -> ExtNames] : n \in 0..MaxExt}

\* The exception classes a call into the driver may end with: the driver's
\* own hierarchy (psqlpy.exceptions) and the builtin the handler of
\* get_version names.
ErrorClasses == {"RustPSQLDriverPyBaseError", "ConnectionRefusedError"}

\* A variant of prep_database's handler that catches nothing.
PrepCatches_Nothing(cls) == FALSE

\* "except ConnectionRefusedError" in get_version.
GetVersionCatches(cls) == cls = "ConnectionRefusedError"

\* "except RustPSQLDriverPyBaseError" in prep_database.
PrepCatches(cls) == cls = "RustPSQLDriverPyBaseError"

\* A version string as its characters; the words of the build information,
\* which no code looks into, are kept whole.
ServerVersions ==
    { <<"9", ".", "4">>,
      <<"9", ".", "4", ".", "1">>,
      <<"1", "2", ".", "4", " ", "(Ubuntu", " ", "12.4-0ubuntu0.20.04.1)">> }

\* The version strings handed to the parser: major.minor in each formatting
\* variant, and strings without a minor part.
Majors == {<<"9">>, <<"1", "0">>, <<"1", "2">>}
Minors == {<<"4">>, <<"1">>, <<"0">>, <<"1", "0">>}
Variants == {"bare", "patch", "build", "patch_build"}
Malformed == {<<"1", "7">>, <<"1", "7", "devel">>, <<>>}

VersionString(major, minor, variant) ==
    major \o <<".">> \o minor
      \o (IF variant \in {"patch", "patch_build"} THEN <<".", "1">> ELSE <<>>)
      \o (IF variant \in {"build", "patch_build"}
          THEN <<" ", "(Ubuntu", " ", "12.4-0ubuntu0.20.04.1)">> ELSE <<>>)

RECURSIVE Before(_, _)
\* What precedes the first sep in s (all of s when there is none).
Before(s, sep) ==
    IF s = <<>> \/ Head(s) = sep THEN <<>>
    ELSE <<Head(s)>> \o Before(Tail(s), sep)

RECURSIVE Split(_, _)
\* str.split(sep)
Split(s, sep) ==
    LET b == Before(s, sep)
    IN  IF Len(b) = Len(s) THEN <<s>>
        ELSE <<b>> \o Split(SubSeq(s, Len(b) + 2, Len(s)), sep)

\* s[:n]
Take(s, n) == SubSeq(s, 1, IF Len(s) < n THEN Len(s) ELSE n)

Digits == {"0", "1", "2", "3", "4", "5", "6", "7", "8", "9"}

DigitVal(c) ==
    CASE c = "0" -> 0 [] c = "1" -> 1 [] c = "2" -> 2 [] c = "3" -> 3
      [] c = "4" -> 4 [] c = "5" -> 5 [] c = "6" -> 6 [] c = "7" -> 7
      [] c = "8" -> 8 [] c = "9" -> 9

RECURSIVE NatOf(_)
\* The number a run of digits denotes.
NatOf(ds) ==
    IF ds = <<>> THEN 0
    ELSE 10 * NatOf(SubSeq(ds, 1, Len(ds) - 1)) + DigitVal(ds[Len(ds)])

RECURSIVE StripZeros(_)
\* The digits after the point without the trailing zeros, which do not
\* change the number.
StripZeros(ds) ==
    IF ds # <<>> /\ ds[Len(ds)] = "0" THEN StripZeros(SubSeq(ds, 1, Len(ds) - 1))
    ELSE ds

\* What an operation that raises ValueError yields.
ValueError == [ok |-> FALSE, int |-> 0, frac |-> <<>>]

\* float(s) for a string of digits with at most one point: the number, as
\* its integer part and the digits after the point; ValueError otherwise.
float(s) ==
    LET ip == Before(s, ".")
        fp == SubSeq(s, Len(ip) + 2, Len(s))
    IN  IF /\ \A i \in 1..Len(ip) : ip[i] \in Digits
           /\ \A i \in 1..Len(fp) : fp[i] \in Digits
           /\ Len(ip) + Len(fp) > 0
        THEN [ok |-> TRUE, int |-> NatOf(ip), frac |-> StripZeros(fp)]
        ELSE ValueError

\* A variant of the parser that converts the whole first segment.
parse_raw_version_string_Whole(v) == float(Split(v, " ")[1])

\* _parse_raw_version_string: the first space-separated segment, its first
\* two dot-separated parts (the unpacking into major, minor raises
\* ValueError when there are fewer), as the number major.minor.
parse_raw_version_string(v) ==
    LET version_segment == Split(v, " ")[1]
        parts == Take(Split(version_segment, "."), 2)
    IN  IF Len(parts) # 2 THEN ValueError
        ELSE float(parts[1] \o <<".">> \o parts[2])

\* The sentinel 0.0.
NoVersion == [ok |-> TRUE, int |-> 0, frac |-> <<>>]

\* PSQLPyEngine._parse_raw_version_string(version_string = v), called on its
\* own as the tests call it; v is major.minor in one of the variants, or a
\* string of Malformed (variant "malformed").
ParseVersion(t, major, minor, variant, v) ==
    /\ Running(t)
    /\ IF variant = "malformed"
       THEN v \in Malformed /\ major = <<>> /\ minor = <<>>
       ELSE v = VersionString(major, minor, variant)
    /\ LET r == parse_raw_version_string(v)
           raised == IF r.ok THEN "none" ELSE "ValueError"
       IN  /\ exc' = [exc EXCEPT ![t] = raised]
           /\ ev' = Ev("parse_raw_version_string", t, NoTx,
                       [major |-> major, minor |-> minor, variant |-> variant, v |-> v],
                       <<>>, raised, r)
    /\ UNCHANGED <<pool, cur, stack, txs, writes>>
    /\ UNCHANGED ext

\* PSQLPyEngine(config, extensions = exts): the program constructs its
\* engine with a list of extensions instead of the default.
Construct(exts) ==
    /\ ev.op = "Init"
    /\ extensions' = exts
    /\ ev' = Ev("__init__", "t1", NoTx, FALSE, <<>>, "none", NoTx)
    /\ UNCHANGED <<pool, cur, stack, exc, txs, writes, log, objs, at, pl, started, nd, bt>>

\* "await engine.get_version()".  The probe goes through
\* _run_in_new_connection; how: it answers with version string v ("ok"), the
\* database refuses the connection ("refused"), or the statement fails for
\* another reason ("query").  cls: the class of the exception the driver
\* raises.
get_version(t, how, cls, v) ==
    /\ Running(t)
    /\ how = "ok" => cls = "none"
    /\ how = "refused" => cls \in ErrorClasses
    /\ how = "query" => cls = "RustPSQLDriverPyBaseError"
    /\ how # "ok" => v = <<>>
    /\ how = "ok" => v \in ServerVersions
    /\ LET caught == how # "ok" /\ GetVersionCatches(cls)
           raised == IF how = "ok" \/ caught THEN "none" ELSE cls
       IN  /\ exc' = [exc EXCEPT ![t] = raised]
           /\ ev' = Ev("get_version", t, NoTx, how,
                       StatementCalls("new", pool, how = "ok")
                         \o (IF caught THEN <<"warning">> ELSE <<>>),
                       raised,
                       IF how = "ok" THEN parse_raw_version_string(v)
                       ELSE IF caught THEN NoVersion ELSE <<>>)
    /\ UNCHANGED <<pool, cur, stack, txs, writes>>
    /\ UNCHANGED ext

\* What the CREATE EXTENSION statements of one call may end with, one entry
\* for each extension.
PrepOutcomes == UNION {[1..n -> ErrorClasses \cup {"none"}] : n \in 0..MaxExt}

RECURSIVE PrepRun(_, _, _, _)
\* The loop of prep_database from extension i on; outs[i]: "none" when
\* CREATE EXTENSION for extension i succeeds, else the class of the exception
\* it raises.  calls: what was called; attempted, warned: the extensions
\* whose creation was started and those warned about, in order; raised: the
\* exception that left the loop.
PrepRun(exts, outs, i, p) ==
    IF i > Len(exts)
    THEN [calls |-> <<>>, attempted |-> <<>>, warned |-> <<>>, raised |-> "none"]
    ELSE LET c == StatementCalls("new", p, outs[i] = "none")
         IN  IF outs[i] = "none"
             THEN LET r == PrepRun(exts, outs, i + 1, p)
                  IN  [r EXCEPT !.calls = c \o @, !.attempted = <<exts[i]>> \o @]
             ELSE IF PrepCatches(outs[i])
             THEN LET r == PrepRun(exts, outs, i + 1, p)
                  IN  [r EXCEPT !.calls = c \o <<"warning">> \o @,
                                !.attempted = <<exts[i]>> \o @,
                                !.warned = <<exts[i]>> \o @]
             ELSE [calls |-> c, attempted |-> <<exts[i]>>, warned |-> <<>>,
                   raised |-> outs[i]]

\* "await engine.prep_database()" with the outcome of each CREATE EXTENSION
\* it gets to.
prep_database(t, outs) ==
    /\ Running(t)
    /\ Len(outs) = Len(extensions)
    /\ LET r == PrepRun(extensions, outs, 1, pool)
       IN  /\ \A i \in 1..Len(outs) : i > Len(r.attempted) => outs[i] = "none"
           /\ exc' = [exc EXCEPT ![t] = r.raised]
           /\ ev' = Ev("prep_database", t, NoTx, outs, r.calls, r.raised,
                       [attempted |-> r.attempted, warned |-> r.warned])
    /\ UNCHANGED <<pool, cur, stack, txs, writes>>
    /\ UNCHANGED ext

NextStartup ==
    \/ \E exts \in ExtLists : Construct(exts)
    \/ StartPool
    \/ ClosePool
    \/ \E t \in Tasks, how \in {"ok", "refused", "query"},
          cls \in ErrorClasses \cup {"none"}, v \in ServerVersions \cup {<<>>} :
            get_version(t, how, cls, v)
    \/ \E t \in Tasks, outs \in PrepOutcomes : prep_database(t, outs)
    \/ \E t \in Tasks, major \in Majors \cup {<<>>}, minor \in Minors \cup {<<>>},
          variant \in Variants \cup {"malformed"},
          v \in Malformed \cup {VersionString(ma, mi, va) :
                                   ma \in Majors, mi \in Minors, va \in Variants} :
            ParseVersion(t, major, minor, variant, v)
    \/ \E t \in Tasks : Catch(t)

SpecStartup == Init /\ [][NextStartup]_vars

TypeOK ==
    /\ pool \in BOOLEAN
    /\ \A t \in Tasks : cur[t] \in TxIds \cup {NoTx}
    /\ Cardinality(writes) <= MaxWrites

\* ---- properties --------------------------------------------------------

Calls(e) == {e.calls[i] : i \in 1..Len(e.calls)}

\* s is an outermost scope: no transaction was current in the task when it
\* was created (no parent) nor when it was entered (the saved slot is empty).
Outermost(s) == ~IsNested(txs[s]) /\ txs[s].context = NoTx

\* The step is the exit of scope s in task t.
ExitStep(t, s) ==
    /\ stack[t] # <<>>
    /\ Top(t) = s
    /\ ev'.op = "Exit"
    /\ ev'.task = t

\* C1: a clean exit of an outermost scope issues the driver commit if and
\* only if the caller has neither committed nor rolled back inside the scope
\* (and never a rollback); with no manual call, once the commit returned,
\* every write the scope's transaction took is committed; after a manual
\* commit or rollback the exit changes neither the driver transaction nor
\* any write, so discarded writes stay discarded.
C1_CleanExit ==
    [][\A t \in Tasks, s \in TxIds :
        (ExitStep(t, s) /\ Outermost(s) /\ exc[t] = "none") =>
            /\ ("commit" \in Calls(ev')) <=> (~txs[s].committed /\ ~txs[s].rolled_back)
            /\ "rollback" \notin Calls(ev')
            /\ (~txs[s].committed /\ ~txs[s].rolled_back /\ ev'.raised = "none")
                   => (\A w \in writes' : w.tx = s => w.st = "committed")
            /\ (txs[s].committed \/ txs[s].rolled_back)
                   => (writes' = writes /\ txs'[s].dtx = txs[s].dtx)
      ]_vars

\* C1 witness: an outermost scope with a write and no manual call has exited
\* cleanly, the exit committed and the write is committed.
C1_Witness ==
    /\ ev.op = "Exit"
    /\ ev.arg = FALSE
    /\ Outermost(ev.s)
    /\ ev.calls = <<"commit", "reset">>
    /\ \E w \in writes : w.tx = ev.s /\ w.st = "committed"

C3_Original ==
    /\ (ev.op = "Enter" /\ ev.raised = "none" /\ ~IsNested(txs[ev.s])) =>
          /\ ev.calls = <<(IF pool THEN "pool" ELSE "new"), "begin", "set">>
          /\ txs[ev.s].dtx = "open"
          /\ cur[ev.task] = ev.s
    /\ \A t \in Tasks : (\E s \in InStack(t) : Outermost(s)) => TransactionExists(t)
    /\ (ev.op = "Exit" /\ Outermost(ev.s)) => ~TransactionExists(ev.task)

\* The step is the successful entry of scope s in task t.
EnterStep(t, s) ==
    /\ txs[s].st = "created"
    /\ ev'.op = "Enter"
    /\ ev'.s = s
    /\ ev'.task = t
    /\ ev'.raised = "none"

\* C4 as stated: entering a scope while a transaction is current in the
\* task, nesting permitted, is a no-op: it yields that transaction, calls
\* nothing (no connection, no begin), and leaves the slot and the outer
\* transaction's flags and savepoint counter as they were.
C4_Original ==
    [][\A t \in Tasks, s \in TxIds :
        (EnterStep(t, s) /\ cur[t] # NoTx /\ txs[s].allow_nested) =>
            /\ ev'.ret = cur[t]
            /\ ev'.calls = <<>>
            /\ cur' = cur
            /\ txs'[cur[t]] = txs[cur[t]]
      ]_vars

\* C5 as stated: at most one transaction is published in a task at a time,
\* and an entry made while a transaction is current begins no driver
\* transaction and yields the transaction that is current.
C5_Original ==
    /\ \A t \in Tasks : Cardinality({s \in InStack(t) : ~IsNested(txs[s])}) <= 1
    /\ (ev.op = "Enter" /\ ev.raised = "none" /\ ev.was # NoTx) =>
          /\ "begin" \notin Calls(ev)
          /\ ev.ret = ev.was

\* C6 as stated: engine.transaction(allow_nested=False) raises
\* TransactionError whenever a transaction is current, and no execution
\* gets into the body of a non-nestable scope while another transaction is
\* current in the task.
C6_Original ==
    /\ (ev.op = "Create" /\ ~ev.arg /\ ev.was # NoTx) => ev.raised = "TransactionError"
    /\ (ev.op = "Enter" /\ ev.raised = "none" /\ ~ev.arg) => ev.was = NoTx

\* C7: a rejected non-nestable open constructs no scope object (so no body
\* runs and no query is issued), calls nothing, and leaves the slot, every
\* transaction object, the writes and the block structure as they were;
\* handling the TransactionError changes none of them either; and the clean
\* exit of the outer scope that follows the handling issues its commit
\* (unless the caller ended the transaction manually), which commits the
\* writes the outer transaction holds.
C7_RejectedOpen ==
    [][/\ (ev'.op = "Create" /\ ev'.raised = "TransactionError") =>
            /\ cur[ev'.task] # NoTx
            /\ ev'.s = NoTx
            /\ ev'.calls = <<>>
            /\ UNCHANGED <<cur, txs, writes, stack>>
       /\ (ev'.op = "Catch" /\ ev'.ret = "TransactionError") =>
            UNCHANGED <<cur, txs, writes, stack>>
       /\ \A t \in Tasks, s \in TxIds :
            (/\ ev.op = "Catch" /\ ev.ret = "TransactionError" /\ ev.task = t
             /\ ExitStep(t, s) /\ ~IsNested(txs[s])) =>
                /\ ("commit" \in Calls(ev')) <=> (~txs[s].committed /\ ~txs[s].rolled_back)
                /\ (ev'.calls = <<"commit", "reset">>) =>
                      \A w \in writes : (w.tx = s /\ w.st = "pending") =>
                          [w EXCEPT !.st = "committed"] \in writes'
      ]_vars

\* C7 witness: inside an outer scope that holds a pending write a
\* non-nestable open was rejected and the error has been handled: the outer
\* transaction is still current, open and neither committed nor rolled back.
C7_Witness ==
    /\ ev.op = "Catch"
    /\ ev.ret = "TransactionError"
    /\ ev.s # NoTx
    /\ cur[ev.task] = ev.s
    /\ txs[ev.s].dtx = "open"
    /\ ~txs[ev.s].committed
    /\ ~txs[ev.s].rolled_back
    /\ \E w \in writes : w.tx = ev.s /\ w.st = "pending"

\* C8 as stated: when a scope that published a transaction exits, the slot
\* holds again the value it had before the scope was entered, whatever the
\* outcome (clean, failing body, failing commit or rollback).
C8_Original ==
    (ev.op = "Exit" /\ ~IsNested(txs[ev.s])) => cur[ev.task] = txs[ev.s].context

\* C9: the exit of a nested scope calls nothing (no commit, no rollback, no
\* reset), leaves the slot, the writes and every other transaction object
\* (so the outer transaction's flags and driver transaction) as they were,
\* changes nothing of the scope but its being exited, and lets the body's
\* outcome through unchanged.
C9_NestedExit ==
    [][\A t \in Tasks, s \in TxIds :
        (ExitStep(t, s) /\ IsNested(txs[s])) =>
            /\ ev'.calls = <<>>
            /\ cur' = cur
            /\ writes' = writes
            /\ txs' = [txs EXCEPT ![s].st = "exited"]
            /\ exc' = exc
            /\ ev'.raised = exc[t]
      ]_vars

\* C9 witness: the body of a nested scope raised and the scope has exited:
\* the exception is still in flight and the outer transaction is still open
\* and current.
C9_Witness ==
    /\ ev.op = "Exit"
    /\ IsNested(txs[ev.s])
    /\ ev.arg = TRUE
    /\ exc[ev.task] = "body"
    /\ cur[ev.task] = txs[ev.s].parent
    /\ txs[txs[ev.s].parent].dtx = "open"
    /\ ~txs[txs[ev.s].parent].rolled_back

\* A read the task would make now: the rows run_querystring(select) returns.
ReadRows(t) ==
    Visible(IF Route(cur[t], TRUE, pool) = "tx" THEN cur[t] ELSE NoTx)

\* C10 as stated: a write made in the body of a nested scope runs in the
\* outer transaction (the scope's parent); the outer block's reads after the
\* inner scope has exited see it; it is durable exactly when the outer
\* transaction is committed and discarded when that is rolled back.
C10_Original ==
    \A w \in writes :
        (w.top # NoTx /\ IsNested(txs[w.top])) =>
            LET p == txs[w.top].parent
            IN  /\ w.tx = p
                /\ Durable(w) <=> txs[p].dtx = "committed"
                /\ txs[p].dtx = "rolledback" => w.st = "discarded"
                /\ \A t \in Tasks :
                     (/\ txs[w.top].st = "exited" /\ Running(t)
                      /\ Top(t) = p /\ txs[p].dtx = "open") => w \in ReadRows(t)

\* C11 as stated: every statement run inside a transaction scope executes in
\* the driver transaction of that scope (the one the scope yielded), on its
\* connection, so all statements of one scope share one driver transaction;
\* and statements of two different outermost scopes run in two different
\* driver transactions.
C11_Original ==
    /\ \A w \in writes :
          w.top # NoTx => (w.tx = Yielded(w.top) /\ w.st # "autocommitted")
    /\ \A w1, w2 \in writes :
          (/\ w1.top # NoTx /\ w2.top # NoTx /\ w1.top # w2.top
           /\ ~IsNested(txs[w1.top]) /\ ~IsNested(txs[w2.top])) => w1.tx # w2.tx

\* C12 as stated: for every combination of (transaction current, in_pool,
\* pool running) a statement runs on the current transaction's connection if
\* there is one, else on a connection borrowed from the pool if in_pool and
\* a pool is running, else on a newly opened connection; run_querystring and
\* run_ddl choose alike.
C12_Original ==
    /\ ev.op \in {"Write", "Ddl"} =>
          ConnUsed(ev.calls) = (IF ev.was # NoTx THEN "tx"
                                ELSE IF ev.arg /\ pool THEN "pool" ELSE "new")
    /\ \A c \in TxIds \cup {NoTx}, i \in BOOLEAN, p \in BOOLEAN :
          RouteDdl(c, i, p) = Route(c, i, p)

\* C13 as stated: get_new_connection never takes its connection from the
\* engine's pool, whatever the pool state; so a statement run outside any
\* transaction with in_pool = False is never on a connection borrowed from
\* the running pool.
C13_Original ==
    /\ \A p \in BOOLEAN : get_new_connection(p) = "new"
    /\ (ev.op \in {"Write", "Ddl"} /\ ev.was = NoTx /\ ~ev.arg) =>
          ConnUsed(ev.calls) # "pool"

\* The last operation was a savepoint operation / handed a statement to the driver.
SpOps == {"Savepoint", "ROLLBACK TO", "RELEASE"}
SpSent(e) == e.op \in SpOps /\ Len(e.calls) = 2

\* C14 as stated: after a rollback to a savepoint (by the Savepoint object or
\* by name) the rows of the transaction are exactly those that existed when
\* that savepoint was created, for every savepoint of that name the caller
\* still holds, also when other savepoints were created after it.
C14_Original ==
    (ev.op = "ROLLBACK TO" /\ ev.raised = "none") =>
        \A o \in 1..Len(objs) :
            (objs[o].tx = ev.s /\ objs[o].name = ev.arg /\ Live(o)) =>
                Rows(log[ev.s]) = objs[o].snap

\* C15: a savepoint operation given the unsafe name raises ValueError having
\* called nothing but the validation: no statement is handed to the driver,
\* whichever of the three operations it is; so every statement handed over
\* carries a safe name and no savepoint of the database has the unsafe name.
C15_UnsafeRejected ==
    /\ (ev.op \in SpOps /\ ev.arg = UnsafeName) =>
          /\ ev.raised = "ValueError"
          /\ ev.calls = <<"validate">>
          /\ ev.ret = NoTx
    /\ SpSent(ev) => ev.arg # UnsafeName
    /\ \A x \in TxIds : Marks(log[x], UnsafeName) = {}
    /\ \A o \in 1..Len(objs) : objs[o].name # UnsafeName

\* C15 witness: inside an open transaction that holds a savepoint, a release
\* naming the unsafe name was rejected.
C15_Witness ==
    /\ ev.op = "RELEASE"
    /\ ev.arg = UnsafeName
    /\ ev.raised = "ValueError"
    /\ txs[ev.s].dtx = "open"
    /\ \E o \in 1..Len(objs) : objs[o].tx = ev.s /\ Live(o)

\* The counter never decreases, and the default-named savepoints of one
\* transaction have pairwise distinct names.
SpCounterSound ==
    /\ \A x \in TxIds : txs'[x].savepoint_id >= txs[x].savepoint_id
    /\ objs' # objs =>
          \A o1, o2 \in 1..Len(objs') :
              (/\ o1 # o2 /\ objs'[o1].dflt /\ objs'[o2].dflt
               /\ objs'[o1].tx = objs'[o2].tx) => objs'[o1].name # objs'[o2].name

\* C16 as stated: savepoint() without a name advances the transaction's
\* counter by one and uses savepoint_<counter>; savepoint(name) with any
\* caller-supplied name uses that name and leaves the counter alone; the
\* counter never decreases and default names of one transaction are distinct.
C16_Original ==
    [][/\ SpCounterSound
       /\ ev'.op = "Savepoint" =>
          \A t \in Tasks, s \in TxIds, name \in SpNames \cup {SpNoName}, ok \in BOOLEAN :
            SpCreate(t, s, name, ok) =>
                LET x == Yielded(s)
                IN  IF name = SpNoName
                    THEN /\ txs'[x].savepoint_id = txs[x].savepoint_id + 1
                         /\ ev'.arg = DefaultName(txs[x].savepoint_id + 1)
                    ELSE /\ txs'[x].savepoint_id = txs[x].savepoint_id
                         /\ ev'.arg = name
      ]_vars

\* C16 amended: as C16, but the empty string counts as no name: savepoint("")
\* advances the counter and uses the default name like savepoint().
C16_DefaultNames ==
    [][/\ SpCounterSound
       /\ ev'.op = "Savepoint" =>
          \A t \in Tasks, s \in TxIds, name \in SpNames \cup {SpNoName}, ok \in BOOLEAN :
            SpCreate(t, s, name, ok) =>
                LET x == Yielded(s)
                IN  IF name \in {SpNoName, ""}
                    THEN /\ txs'[x].savepoint_id = txs[x].savepoint_id + 1
                         /\ ev'.arg = DefaultName(txs[x].savepoint_id + 1)
                    ELSE /\ txs'[x].savepoint_id = txs[x].savepoint_id
                         /\ ev'.arg = name
      ]_vars

\* C16 witness: a nested scope is open and the outer transaction has two
\* default-named savepoints, savepoint_1 and savepoint_2, the second one
\* just created through the nested scope's transaction.
C16_Witness ==
    /\ ev.op = "Savepoint"
    /\ ev.raised = "none"
    /\ ev.arg = "savepoint_2"
    /\ Top(ev.task) # NoTx
    /\ IsNested(txs[Top(ev.task)])
    /\ txs[Top(ev.task)].parent = ev.s
    /\ txs[ev.s].savepoint_id = 2
    /\ \E o1, o2 \in 1..Len(objs) :
          /\ objs[o1].dflt /\ objs[o1].tx = ev.s /\ objs[o1].name = "savepoint_1"
          /\ objs[o2].dflt /\ objs[o2].tx = ev.s /\ objs[o2].name = "savepoint_2"

\* C17: every ROLLBACK TO / RELEASE statement handed to the driver goes to
\* the connection of the transaction the Savepoint belongs to, whatever the
\* task's current transaction is at that moment.
C17_OwnerConnection ==
    (SpSent(ev) /\ ev.op # "Savepoint") => (ev.s # NoTx /\ ev.ret = ev.s)

\* C17 witness: a release was sent for a Savepoint whose transaction is not
\* the task's current transaction (its scope has exited).
C17_Witness ==
    /\ ev.op = "RELEASE"
    /\ SpSent(ev)
    /\ ev.was # ev.s
    /\ ev.ret = ev.s
    /\ \E o \in 1..Len(objs) : objs[o].tx = ev.s /\ objs[o].name = ev.arg

\* The queries of a list up to the first that does not run to its end.
RunsUpTo(q) ==
    LET stops == {k \in 1..Len(q) : q[k].kind # "ok"}
    IN  IF stops = {} THEN q
        ELSE SubSeq(q, 1, (CHOOSE k \in stops : \A l \in stops : k <= l) - 1)

\* C18 (as stated): Atomic.run executes the pending queries at most once
\* each and in the order they were added, and a run that ends without
\* raising has executed every one of them, all in the one transaction of the
\* scope it opened, which the end of the run committed.
C18_Original ==
    /\ ev.op \in {"AtomicQuery", "AtomicEnd"} =>
          Ids(at.ran) = SubSeq(Ids(at.start), 1, Len(at.ran))
    /\ (ev.op = "AtomicEnd" /\ ev.raised = "none") =>
          /\ Ids(at.ran) = Ids(at.start)
          /\ \A k \in 1..Len(at.ran) : at.ran[k].tx = ev.s /\ at.ran[k].held
          /\ "commit" \in Calls(ev)

\* C19: when Atomic.run has finished, by its loop ending, by a query or a
\* type error, or by the scope failing to be entered or committed, nothing
\* is pending; so a run executes only queries added after the previous run
\* ended.
C19_ClearedAfterRun ==
    /\ (ev.op \in {"AtomicBegin", "AtomicEnd"} /\ at.pc = "idle") => at.queries = <<>>
    /\ at.pc = "loop" =>
          /\ \A k \in 1..Len(at.start) : at.start[k].id > at.prev
          /\ \A k \in 1..Len(at.ran) : at.ran[k].id > at.prev

\* C19's case: a later run of the builder, holding only what was added
\* after the earlier run, has failed and left nothing pending.
C19_Witness ==
    /\ ev.op = "AtomicEnd"
    /\ ev.raised # "none"
    /\ at.start # <<>>
    /\ at.start[1].id > 1
    /\ at.prev = at.added
    /\ at.queries = <<>>

\* C20 (as stated): a run made outside any other transaction in which a
\* query fails raises the failure, has executed exactly the queries before
\* the failing one, and leaves no row of the batch durable.
C20_Original ==
    (ev.op = "AtomicEnd" /\ ev.arg /\ stack[ev.task] = <<>>) =>
        /\ ev.raised # "none"
        /\ Ids(at.ran) = Ids(RunsUpTo(at.start))
        /\ \A w \in writes : w.top = ev.s => ~Durable(w)

\* The first query of a list that does not run to its end is no query at all.
JunkStops(q) ==
    /\ Len(RunsUpTo(q)) < Len(q)
    /\ ~IsQuery(q[Len(RunsUpTo(q)) + 1])

\* C21 (as stated): a run of a batch in which an object that is no query is
\* reached, wherever it stands in the list, ends with a type error and leaves
\* no row of the batch durable.
C21_Original ==
    (ev.op = "AtomicEnd" /\ JunkStops(at.start)) =>
        /\ ev.raised = "TypeError"
        /\ \A w \in writes : w.top = ev.s => ~Durable(w)

PoolOps == {"start_connection_pool", "start_connnection_pool",
            "close_connection_pool", "close_connnection_pool"}
StartOps == {"start_connection_pool", "start_connnection_pool"}

\* C22: over any sequence of starts and closes the engine holds at most one
\* pool and every other pool it made has been closed; a start when a pool
\* exists warns and keeps that pool object, a start when none exists makes
\* one; a close when a pool exists closes it and unsets it, a close when none
\* exists warns and changes nothing; none of them raises.
C22_OnePool ==
    [][/\ pool' = (pl'.held # 0)
       /\ pl'.closed = (1..pl'.made) \ {pl'.held}
       /\ ev'.op \in PoolOps =>
             /\ ev'.raised = "none"
             /\ exc' = exc
             /\ IF ev'.op \in StartOps
                THEN IF pl.held # 0
                     THEN pl' = pl /\ "warn" \in Calls(ev')
                          /\ "ConnectionPool" \notin Calls(ev')
                     ELSE pl'.held = pl.made + 1 /\ pl'.made = pl.made + 1
                          /\ "warn" \notin Calls(ev')
                ELSE IF pl.held # 0
                     THEN pl'.held = 0 /\ pl.held \in pl'.closed
                          /\ "close" \in Calls(ev')
                     ELSE pl' = pl /\ "warn" \in Calls(ev')]_vars

\* C22's case: a pool was started, closed and started again, and one more
\* start has warned and kept it.
C22_Witness ==
    /\ ev.op = "start_connection_pool"
    /\ ev.arg
    /\ Calls(ev) = {"warn"}
    /\ pl.made = 2
    /\ pl.held = 2

\* C23 (as stated): a call of a misspelled alias changes the engine's pool
\* as the call of the method it stands for, with the same arguments in the
\* same state, would, and emits a deprecation warning.
C23_Original ==
    [][\A kw \in Kwargs :
          /\ start_connnection_pool(kw) =>
                pl' = start_pool(pl, kw) /\ "deprecation" \in Calls(ev')
          /\ close_connnection_pool(kw) =>
                pl' = close_pool(pl) /\ "deprecation" \in Calls(ev')]_vars

\* C24 (as stated): a transaction whose scope one task is inside is never
\* the current transaction of another task, also of a task started while
\* the scope is open, and no statement of another task is routed to its
\* connection.
C24_Original ==
    /\ \A t \in AllTasks : \A u \in AllTasks \ {t} :
          cur[t] # NoTx => cur[t] \notin InStack(u)
    /\ ev.op = "Write" =>
          \A u \in AllTasks \ {ev.task} : ev.s # NoTx => ev.s \notin InStack(u)

\* C25: the slot belongs to one engine instance, also when two engines name
\* the same database: the main engine's slot never holds a transaction of
\* the node and the node's slot never one of the main engine; a scope joins
\* only a transaction of its own engine; and a statement issued through one
\* engine is never routed to a transaction of the other.
C25_OwnSlot ==
    /\ \A t \in Tasks : cur[t] \notin nd.txs
    /\ nd.cur \in nd.txs \cup {NoTx}
    /\ \A s \in TxIds : txs[s].parent # NoTx =>
          (s \in nd.txs <=> txs[s].parent \in nd.txs)
    /\ ev.op = "Write" => ev.s \notin nd.txs
    /\ ev.op = "NodeWrite" => ev.s \in nd.txs \cup {NoTx}

\* C25's case: both engines name the same database and each has an open
\* transaction in the task; a statement through the node went to the
\* node's.
C25_Witness ==
    /\ nd.same
    /\ ev.op = "NodeWrite"
    /\ ev.s \in nd.txs
    /\ cur[ev.task] # NoTx
    /\ cur[ev.task] \notin nd.txs
    /\ txs[cur[ev.task]].dtx = "open"
    /\ txs[ev.s].dtx = "open"

StatementOps == {"run_querystring", "run_ddl"}

\* The driver refused the statement of the savepoint operation just made.
SpRefused == ev'.op \in SpOps /\ SpSent(ev') /\ log' = log

\* C26 (as stated): a driver failure of a statement reaches the caller as
\* the same error: run_querystring and run_ddl raise it on every route, a
\* savepoint operation raises the driver's error, and every scope exit and
\* Atomic.run it passes through leaves it as it is.
C26_Original ==
    [][\A t \in Tasks :
          /\ (ev'.op \in StatementOps /\ ev'.task = t
                /\ \E in_pool \in BOOLEAN, ddl \in BOOLEAN :
                      RunStatement(t, in_pool, ddl, FALSE))
                => exc'[t] = "query" /\ ev'.raised = "query"
          /\ (ev'.op = "AtomicQuery" /\ ev'.task = t /\ at.queries[at.i].kind = "bad")
                => exc'[t] = "query"
          /\ (SpRefused /\ ev'.task = t) => exc'[t] = "driver" /\ ev'.raised = "driver"
          /\ (exc[t] = "query" /\ ev'.op # "Catch") => exc'[t] = "query"]_vars

\* C26 (amended): ... every scope exit and Atomic.run it passes through
\* leaves it as it is, unless the rollback that exit makes itself fails:
\* then the rollback's error reaches the caller in its place.
C26_UnlessRollbackFails ==
    [][\A t \in Tasks :
          /\ (ev'.op \in StatementOps /\ ev'.task = t
                /\ \E in_pool \in BOOLEAN, ddl \in BOOLEAN :
                      RunStatement(t, in_pool, ddl, FALSE))
                => exc'[t] = "query" /\ ev'.raised = "query"
          /\ (ev'.op = "AtomicQuery" /\ ev'.task = t /\ at.queries[at.i].kind = "bad")
                => exc'[t] = "query"
          /\ (SpRefused /\ ev'.task = t) => exc'[t] = "driver" /\ ev'.raised = "driver"
          /\ (exc[t] = "query" /\ ev'.op # "Catch") =>
                \/ exc'[t] = "query"
                \/ /\ ev'.op \in {"Exit", "AtomicEnd"}
                   /\ Calls(ev') = {"rollback"}
                   /\ exc'[t] = "driver"]_vars

\* C26's case: a statement failed inside a nested scope inside an outermost
\* scope, and its error has passed through both exits.
C26_Witness ==
    /\ ev.op = "Exit"
    /\ ev.raised = "query"
    /\ ~IsNested(txs[ev.s])
    /\ "rollback" \in Calls(ev)
    /\ \E s \in TxIds : txs[s].parent = ev.s /\ txs[s].st = "exited"

\* The calls by which a path gives a connection back.
Releases == {"back_to_pool", "close"}

\* C28 (as stated): a one-shot statement call that took a connection, a
\* scope entry that took one and then failed, and the exit of an outermost
\* scope have each given the connection back when they finish, on success
\* and on failure.
C28_Original ==
    /\ (ev.op \in StatementOps /\ ev.calls[1] # "tx") => Calls(ev) \cap Releases # {}
    /\ (ev.op = "Enter" /\ ev.raised # "none" /\ "begin" \in Calls(ev)) =>
          Calls(ev) \cap Releases # {}
    /\ (ev.op = "Exit" /\ ~IsNested(txs[ev.s])) => Calls(ev) \cap Releases # {}

\* C27 (as stated): when the block of a batch is left by an exception (of
\* the block, or of the driver while fetching), the batch's transaction is
\* rolled back and an exception reaches the caller.
C27_Original ==
    (ev.op = "BatchExit" /\ ev.arg) =>
        /\ "rollback" \in Calls(ev)
        /\ ev.raised # "none"
        /\ exc[ev.task] # "none"

\* C29 (as stated): when the database refuses the connection while
\* get_version probes the version, get_version warns and returns the
\* sentinel 0 and raises nothing.
C29_Original ==
    (ev.op = "get_version" /\ ev.arg = "refused") =>
        /\ ev.raised = "none"
        /\ exc[ev.task] = "none"
        /\ "warning" \in Calls(ev)
        /\ ev.ret = NoVersion

\* The extensions in exts whose creation raised a driver error under outs.
RECURSIVE FailedOf(_, _, _)
FailedOf(exts, outs, i) ==
    IF i > Len(exts) THEN <<>>
    ELSE (IF outs[i] = "RustPSQLDriverPyBaseError" THEN <<exts[i]>> ELSE <<>>)
           \o FailedOf(exts, outs, i + 1)

\* Every failure in outs is a driver error.
DriverFailuresOnly(outs) ==
    \A i \in 1..Len(outs) : outs[i] \in {"none", "RustPSQLDriverPyBaseError"}

\* C30: when the creation of extensions fails with driver errors only,
\* prep_database attempts every configured extension in the configured
\* order, warns once for each one that failed, in order, and raises nothing.
C30_AllAttempted ==
    (ev.op = "prep_database" /\ DriverFailuresOnly(ev.arg)) =>
        /\ ev.ret.attempted = extensions
        /\ ev.ret.warned = FailedOf(extensions, ev.arg, 1)
        /\ Len(SelectSeq(ev.calls, LAMBDA c : c = "warning")) = Len(ev.ret.warned)
        /\ Len(SelectSeq(ev.calls, LAMBDA c : c = "execute")) = Len(extensions)
        /\ ev.raised = "none"
        /\ exc[ev.task] = "none"

\* prep_database ran with two extensions of which the first could not be
\* created; the second was attempted after it.
C30_Witness ==
    /\ ev.op = "prep_database"
    /\ Len(extensions) = 2
    /\ ev.arg[1] = "RustPSQLDriverPyBaseError"
    /\ ev.ret.attempted = extensions
    /\ ev.ret.warned # <<>>
    /\ ev.raised = "none"

\* C31: a version string that is major.minor, bare, followed by a patch
\* number, by build information or by both, parses to the number major.minor
\* and to nothing else; the formatting variant makes no difference.
C31_MajorMinor ==
    (ev.op = "parse_raw_version_string" /\ ev.arg.variant # "malformed") =>
        /\ ev.raised = "none"
        /\ ev.ret = [ok |-> TRUE, int |-> NatOf(ev.arg.major),
                     frac |-> StripZeros(ev.arg.minor)]
        /\ ev.ret = parse_raw_version_string(
                        VersionString(ev.arg.major, ev.arg.minor, "bare"))

\* "12.4" with a patch number and build information was parsed, to 12.4.
C31_Witness ==
    /\ ev.op = "parse_raw_version_string"
    /\ ev.arg.variant = "patch_build"
    /\ ev.arg.major = <<"1", "2">>
    /\ ev.ret.int = 12
    /\ ev.ret.frac = <<"4">>

BatchOps == {"BatchMake", "BatchEnter", "BatchNext", "BatchIter", "BatchNextEarly",
             "BatchRaise", "BatchExit"}

\* The step enters the batch's block (or fails to) / leaves it.
BatchEnterStep == bt.st = "made" /\ bt'.st \in {"open", "failed"}
BatchExitStep == bt.st = "open" /\ bt'.st = "closed"

\* C32: a batch takes its connection from get_new_connection, never the
\* current transaction's; entering its block begins a driver transaction of
\* the batch before the cursor is created and touches no transaction scope;
\* leaving the block ends that transaction, open until then, with one call:
\* rollback when an exception is in flight, commit otherwise; no other batch
\* operation commits or rolls back.
C32_OwnTransaction ==
    [][ /\ (bt.st # "made" /\ bt'.st = "made") =>
              /\ bt'.src \in {"pool", "new"}
              /\ ev'.calls = <<bt'.src>>
              /\ bt'.dtx = "none"
        /\ BatchEnterStep =>
              /\ SubSeq(ev'.calls, 1, 2) = <<"transaction", "begin">>
              /\ bt'.cursor => (ev'.calls = <<"transaction", "begin", "cursor">>
                                 /\ bt'.dtx = "open")
              /\ bt'.st = "open" <=> bt'.cursor
              /\ UNCHANGED <<cur, txs, stack>>
        /\ BatchExitStep =>
              /\ bt.dtx = "open"
              /\ bt'.dtx # "open"
              /\ ev'.calls = <<IF exc[ev'.task] # "none" THEN "rollback" ELSE "commit">>
              /\ UNCHANGED <<cur, txs, stack>>
        /\ (ev' # ev /\ ev'.op \in BatchOps /\ ~BatchExitStep) =>
              /\ "commit" \notin Calls(ev')
              /\ "rollback" \notin Calls(ev')
              /\ (bt'.dtx # bt.dtx => (BatchEnterStep \/ bt'.st = "made"))
      ]_vars

\* Inside a transaction scope, a batch on a connection of its own was left
\* by an exception and its transaction rolled back.
C32_Witness ==
    /\ ev.op = "BatchExit"
    /\ ev.arg
    /\ ev.was # NoTx
    /\ bt.src = "new"
    /\ bt.dtx = "rolledback"
    /\ ev.calls = <<"rollback">>

\* C33: each round of iterating a batch fetches once; a fetch that returns
\* rows adds exactly that response to what was yielded, so responses are
\* yielded in fetch order and none is empty; a fetch that returns no rows
\* ends the iteration without yielding and without an exception; only
\* iterating yields; a fetch on a batch whose block was not entered raises
\* ValueError and calls nothing.
C33_Iteration ==
    [][ /\ \A i \in 1..Len(bt'.yielded) : bt'.yielded[i] # NoBatchRows
        /\ \A i \in 1..Len(bt'.yielded) : \A j \in 1..Len(bt'.yielded) :
              i < j => bt'.yielded[i][1] < bt'.yielded[j][1]
        /\ (ev'.op = "BatchIter" /\ (ev' # ev \/ bt' # bt)) =>
              /\ ev'.calls = <<"fetch">>
              /\ (ev'.raised = "none" /\ ev'.ret # NoBatchRows) =>
                    (~ev'.arg /\ bt'.yielded = Append(bt.yielded, ev'.ret))
              /\ (ev'.raised = "none" /\ ev'.ret = NoBatchRows) =>
                    (ev'.arg /\ bt'.yielded = bt.yielded /\ exc' = exc)
              /\ ev'.raised # "none" => bt'.yielded = bt.yielded
        /\ (ev'.op # "BatchIter" /\ bt'.st = bt.st) => bt'.yielded = bt.yielded
        /\ (ev'.op = "BatchNextEarly" /\ ev' # ev) =>
              /\ ev'.raised = "ValueError"
              /\ exc'[ev'.task] = "ValueError"
              /\ ev'.calls = <<>>
              /\ bt' = bt
      ]_vars

\* The iteration ended at an empty fetch after yielding two batches.
C33_Witness ==
    /\ ev.op = "BatchIter"
    /\ ev.arg
    /\ ev.ret = NoBatchRows
    /\ Len(bt.yielded) = 2
    /\ exc[ev.task] = "none"

\* C34 (as stated): the exit of a scope never issues a commit or a rollback
\* on a driver transaction that was already committed or already rolled
\* back.
C34_Original ==
    [][ (ev'.op = "Exit" /\ stack' # stack
           /\ Calls(ev') \cap {"commit", "rollback"} # {}) =>
            txs[ev'.s].dtx \notin {"committed", "rolledback"}
      ]_vars

\* C35 (as stated): when a scope has been entered successfully, the
\* transaction object it yielded is the task's current transaction and its
\* driver transaction has been begun.
C35_Original ==
    (ev.op = "Enter" /\ ev.raised = "none") =>
        /\ cur[ev.task] = ev.ret
        /\ txs[ev.ret].dtx # "none"

\* C36 (as stated): a statement the router sends to the current
\* transaction's connection runs while that driver transaction is open.
C36_Original ==
    (ev.op = "Write" /\ ConnUsed(ev.calls) = "tx") =>
        txs[ev.s].dtx = "open"

\* The step is a failed entry of scope ev'.s.
EnterFailsStep ==
    /\ ev'.op = "Enter"
    /\ ev'.raised # "none"
    /\ txs[ev'.s].st = "created"
    /\ txs'[ev'.s].st = "failed"

\* C37: a failed entry of an outermost scope (the connection could not be
\* acquired, or begin raised) leaves the task's slot, the scope stack and
\* the pool as they were, so every statement is routed as before it; the
\* object's flags stay false and no driver transaction is open for it; and
\* no slot ever holds an object whose entry failed.
C37_FailedEntry ==
    [][ /\ EnterFailsStep =>
              /\ cur' = cur
              /\ stack' = stack
              /\ pool' = pool
              /\ \A t \in Tasks, in_pool \in BOOLEAN :
                    /\ Route(cur'[t], in_pool, pool') = Route(cur[t], in_pool, pool)
                    /\ RouteDdl(cur'[t], in_pool, pool') = RouteDdl(cur[t], in_pool, pool)
              /\ ~txs'[ev'.s].committed
              /\ ~txs'[ev'.s].rolled_back
              /\ txs'[ev'.s].dtx = "none"
              /\ writes' = writes
        /\ \A t \in Tasks : cur'[t] # NoTx => txs'[cur'[t]].st # "failed"
      ]_vars

\* After an entry that failed at begin, a statement of the task ran outside
\* any transaction.
C37_Witness ==
    /\ ev.op = "Write"
    /\ ev.was = NoTx
    /\ ConnUsed(ev.calls) = "new"
    /\ \E s \in TxIds : txs[s].st = "failed" /\ ~IsNested(txs[s])

\* C38: the current-transaction slot of a task holds only a transaction
\* without a parent, and the parent of a transaction object has no parent
\* itself: parent chains have length at most one.
C38_FlatParents ==
    /\ \A t \in AllTasks : cur[t] # NoTx => ~IsNested(txs[cur[t]])
    /\ \A s \in TxIds : IsNested(txs[s]) =>
          /\ txs[txs[s].parent].st # "free"
          /\ ~IsNested(txs[txs[s].parent])

\* A scope with a parent has been entered while its parent is current.
C38_Witness ==
    \E s \in TxIds :
        /\ IsNested(txs[s])
        /\ txs[s].st = "entered"
        /\ cur["t1"] = txs[s].parent
        /\ Top("t1") = s

\* C39 (as stated, for a run that raises nothing): when the run ends, every
\* query that was pending, those added while it was in progress included,
\* has been executed by it or is still pending.
C39_Original ==
    [][ (at.pc = "loop" /\ at'.pc = "idle" /\ ev'.raised = "none") =>
            \A k \in 1..Len(at.queries) :
                \/ \E j \in 1..Len(at.ran) : at.ran[j].id = at.queries[k].id
                \/ \E j \in 1..Len(at'.queries) : at'.queries[j].id = at.queries[k].id
      ]_vars

\* C40 (as stated): the name of a newly created default-named savepoint
\* differs from the name of every savepoint created before it in the same
\* transaction.
C40_Original ==
    [][ (Len(objs') = Len(objs) + 1 /\ objs'[Len(objs')].dflt) =>
            \A o \in 1..Len(objs) :
                objs[o].tx = objs'[Len(objs')].tx =>
                    objs[o].name # objs'[Len(objs')].name
      ]_vars

====
